---------------------------- MODULE Spec2Model ----------------------------
(***************************************************************************)
(* A model of youtube-transcriber: the URL identifier extractor, the       *)
(* paragraph reflow engine (SimpleFormatter), the web TranscriptService    *)
(* cleaning, the chapter inference engine and the three front-ends (web    *)
(* handler, CLI process_url, GUI worker) that drive them.                  *)
(*                                                                         *)
(* Text is a sequence of one-character strings.  Python's None is the      *)
(* record None; an optional string is None or Some(chars).                 *)
(***************************************************************************)
EXTENDS Integers, Sequences, FiniteSets, TLC

VARIABLES
    \* --- one request through a front-end (Spec) ---
    frontend,      \* "none" | "web" | "cli" | "gui"
    pc,            \* position of the request
    ureq,          \* how the input string was put together (a UrlRequests record)
    url,           \* the raw input string of the request
    video_id,      \* what extract_video_id returned (None before it ran)
    calls,         \* provider calls made for this request, in order
    outcome,       \* the response / return value / GUI error of the request
    afterQueue,    \* callbacks scheduled with root.after, not yet run
    gui,           \* the GUI widgets' state
    \* --- SimpleFormatter.format_transcript, step by step (SpecFormat) ---
    fpc, segments, sentences, sidx, current_paragraph, paragraphs, fresult,
    webresult, flog,
    \* --- ChapterService (SpecChapters) ---
    cpc, info, chapters, cidx, cstrategy,
    \* --- one request with a valid identifier, stage by stage (SpecRetrieve) ---
    rfront,        \* "none" | "web" | "cli"
    rpc,           \* position of the request
    roptions,      \* include_metadata and where the CLI output goes
    metadata,      \* what the metadata fetch met and returned
    transcript_data, \* what the transcript retrieval met, did and returned
    response,      \* the web response / process_url's return value and output
    \* --- YouTubeTranscriber.process_batch (SpecBatch) ---
    bpc,           \* position of process_batch
    urls,          \* its input list
    output_dir,    \* whether an output directory was given
    bidx,          \* how many URLs the loop has taken
    processed,     \* the URLs process_url was called with, in order
    results,       \* the results dict, as (url, success) pairs in insertion order
    outcomes,      \* what each process_url call came to, in order
    files,         \* the files written, as (name, url) pairs in creation order
    exit_code,     \* the exit status of the CLI process, once it has exited
    \* --- the GUI window and its threads (SpecGui) ---
    window,        \* the widgets and Tk variables
    current,       \* current_transcript and current_metadata
    threads,       \* the worker threads that are running
    mainloop,      \* callbacks scheduled with root.after, not yet run
    submitted,     \* how many requests process_video has started
    trace,         \* which thread touched Tk state or called a provider
    saved,         \* what Save wrote last and what Copy put on the clipboard
    \* --- the timestamp conversions, alone (SpecTimestamp) ---
    conv           \* a text or a number of seconds and what the conversions gave

reqVars == <<frontend, pc, ureq, url, video_id, calls, outcome, afterQueue, gui>>
fmtVars == <<fpc, segments, sentences, sidx, current_paragraph, paragraphs,
             fresult, webresult, flog>>
chapVars == <<cpc, info, chapters, cidx, cstrategy>>
retVars == <<rfront, rpc, roptions, metadata, transcript_data, response>>
batchVars == <<bpc, urls, output_dir, bidx, processed, results, outcomes, files, exit_code>>
winVars == <<window, current, threads, mainloop, submitted, trace, saved>>
vars == <<reqVars, fmtVars, chapVars, retVars, batchVars, winVars, conv>>

-----------------------------------------------------------------------------
(* Characters and strings *)

None == [some |-> FALSE, val |-> <<>>]
Some(v) == [some |-> TRUE, val |-> v]

LowerSeq == <<"a", "b", "c", "d", "e", "f", "g", "h", "i", "j", "k", "l", "m",
              "n", "o", "p", "q", "r", "s", "t", "u", "v", "w", "x", "y", "z">>
UpperSeq == <<"A", "B", "C", "D", "E", "F", "G", "H", "I", "J", "K", "L", "M",
              "N", "O", "P", "Q", "R", "S", "T", "U", "V", "W", "X", "Y", "Z">>
Lowers == {LowerSeq[i] : i \in 1..26}
Uppers == {UpperSeq[i] : i \in 1..26}
Digits == {"0", "1", "2", "3", "4", "5", "6", "7", "8", "9"}
\* U+212A KELVIN SIGN: a non-ASCII character whose lowercase is "k".
KelvinSign == "<U+212A>"
\* A decoded byte that is none of the characters used otherwise.
OtherChar == "<other>"
WS == {" ", "\t", "\n", "\r"}

\* str.lower() on one character.
ToLower(c) ==
    IF c \in Uppers THEN LowerSeq[CHOOSE i \in 1..26 : UpperSeq[i] = c]
    ELSE IF c = KelvinSign THEN "k" ELSE c

\* str.upper() on one character.
ToUpper(c) ==
    IF c \in Lowers THEN UpperSeq[CHOOSE i \in 1..26 : LowerSeq[i] = c] ELSE c

LowerStr(s) == [i \in 1..Len(s) |-> ToLower(s[i])]

\* s starts, at index p, with lit (case-sensitive).
LitAt(s, p, lit) ==
    /\ p >= 1
    /\ p + Len(lit) - 1 <= Len(s)
    /\ \A k \in 1..Len(lit) : s[p + k - 1] = lit[k]

\* The same under re.IGNORECASE.
LitAtCI(s, p, lit) ==
    /\ p >= 1
    /\ p + Len(lit) - 1 <= Len(s)
    /\ \A k \in 1..Len(lit) : ToLower(s[p + k - 1]) = ToLower(lit[k])

StartsWith(s, lit) == LitAt(s, 1, lit)

\* The first index >= p at which lit occurs in s; 0 when there is none (str.find).
Find(s, lit, p) ==
    LET hits == {i \in p..Len(s) : LitAt(s, i, lit)}
    IN  IF hits = {} THEN 0 ELSE CHOOSE i \in hits : \A j \in hits : i <= j

\* str.strip(): surrounding whitespace removed.
Strip(s) ==
    LET keep == {i \in 1..Len(s) : s[i] \notin WS}
    IN  IF keep = {} THEN <<>>
        ELSE SubSeq(s, CHOOSE i \in keep : \A j \in keep : i <= j,
                       CHOOSE i \in keep : \A j \in keep : j <= i)

\* str.split(sep): the pieces of s between the occurrences of sep, from index p.
RECURSIVE SplitFrom(_, _, _)
SplitFrom(s, sep, p) ==
    LET q == Find(s, sep, p)
    IN  IF q = 0 THEN <<SubSeq(s, p, Len(s))>>
        ELSE <<SubSeq(s, p, q - 1)>> \o SplitFrom(s, sep, q + Len(sep))

Split(s, sep) == SplitFrom(s, sep, 1)

-----------------------------------------------------------------------------
(* URLExtractor *)

IdLen == 11

\* [a-zA-Z0-9_-] as the validation regex reads it (no flags).
IdChar(c) == c \in Lowers \cup Uppers \cup Digits \cup {"_", "-"}

\* [a-zA-Z0-9_-] under re.IGNORECASE: a character whose case folding is in the
\* class matches too.
IdCharCI(c) == IdChar(ToLower(c))

Https == <<"h", "t", "t", "p", "s", ":", "/", "/">>
Http == <<"h", "t", "t", "p", ":", "/", "/">>
Www == <<"w", "w", "w", ".">>

\* self.url_patterns, without the last (anchored) one: each is
\* (?:https?://)?  [(?:www\.)?]  literal  ([a-zA-Z0-9_-]{11}).
url_patterns == <<
    [www |-> TRUE,  lit |-> <<"y", "o", "u", "t", "u", "b", "e", ".", "c", "o", "m", "/", "w", "a", "t", "c", "h", "?", "v", "=">>],
    [www |-> FALSE, lit |-> <<"y", "o", "u", "t", "u", ".", "b", "e", "/">>],
    [www |-> TRUE,  lit |-> <<"y", "o", "u", "t", "u", "b", "e", ".", "c", "o", "m", "/", "e", "m", "b", "e", "d", "/">>],
    [www |-> TRUE,  lit |-> <<"y", "o", "u", "t", "u", "b", "e", ".", "c", "o", "m", "/", "s", "h", "o", "r", "t", "s", "/">>],
    [www |-> TRUE,  lit |-> <<"y", "o", "u", "t", "u", "b", "e", ".", "c", "o", "m", "/", "l", "i", "v", "e", "/">>],
    [www |-> FALSE, lit |-> <<"m", ".", "y", "o", "u", "t", "u", "b", "e", ".", "c", "o", "m", "/", "w", "a", "t", "c", "h", "?", "v", "=">>] >>

\* The ways the optional groups of a pattern can match, in the regex engine's
\* order of preference (greedy: each optional group is tried present first).
PrefixOptions(pat) ==
    IF pat.www
    THEN <<Https \o Www, Https, Http \o Www, Http, Www, <<>>>>
    ELSE <<Https, Http, <<>>>>

\* The pattern matched with its first character at index p: the index at which
\* group 1 starts, 0 when the pattern does not match at p.
MatchAt(pat, s, p) ==
    LET opts == PrefixOptions(pat)
        ok(k) == /\ LitAtCI(s, p, opts[k] \o pat.lit)
                 /\ p + Len(opts[k]) + Len(pat.lit) + IdLen - 1 <= Len(s)
                 /\ \A j \in 0..(IdLen - 1) :
                        IdCharCI(s[p + Len(opts[k]) + Len(pat.lit) + j])
        good == {k \in 1..Len(opts) : ok(k)}
    IN  IF good = {} THEN 0
        ELSE LET k == CHOOSE k \in good : \A j \in good : k <= j
             IN  p + Len(opts[k]) + Len(pat.lit)

\* re.match in place of re.search: the pattern is tried at the start only.
SearchPatternAtStart(pat, s) ==
    IF MatchAt(pat, s, 1) = 0 THEN None
    ELSE Some(SubSeq(s, MatchAt(pat, s, 1), MatchAt(pat, s, 1) + IdLen - 1))

\* re.search(pattern, url, re.IGNORECASE).group(1): the leftmost match.
SearchPattern(pat, s) ==
    LET group == [p \in 1..Len(s) |-> MatchAt(pat, s, p)]
        starts == {p \in 1..Len(s) : group[p] # 0}
    IN  IF starts = {} THEN None
        ELSE LET p == CHOOSE p \in starts : \A q \in starts : p <= q
             IN  Some(SubSeq(s, group[p], group[p] + IdLen - 1))

\* re.search(r'^([a-zA-Z0-9_-]{11})$', url, re.IGNORECASE): '$' matches at the
\* end of the string and before a newline that ends it.
SearchBareId(s) ==
    IF /\ Len(s) >= IdLen
       /\ \A j \in 1..IdLen : IdCharCI(s[j])
       /\ \/ Len(s) = IdLen
          \/ Len(s) = IdLen + 1 /\ s[IdLen + 1] = "\n"
    THEN Some(SubSeq(s, 1, IdLen)) ELSE None

NumPatterns == Len(url_patterns) + 1

SearchNth(n, s) ==
    IF n <= Len(url_patterns) THEN SearchPattern(url_patterns[n], s)
    ELSE SearchBareId(s)

\* _is_valid_video_id: re.match(r'^[a-zA-Z0-9_-]{11}$', video_id), where '$'
\* matches at the end and before a newline that ends the string.
IsValidVideoId(v) ==
    /\ Len(v) >= IdLen
    /\ \A j \in 1..IdLen : IdChar(v[j])
    /\ \/ Len(v) = IdLen
       \/ Len(v) = IdLen + 1 /\ v[IdLen + 1] = "\n"

\* _extract_with_patterns: the first pattern, in list order, whose match
\* validates.
ExtractWithPatterns(s) ==
    LET found == [n \in 1..NumPatterns |-> SearchNth(n, s)]
        good == {n \in 1..NumPatterns :
                    found[n].some /\ IsValidVideoId(found[n].val)}
    IN  IF good = {} THEN None
        ELSE found[CHOOSE n \in good : \A m \in good : n <= m]


\* url.startswith(('http://', 'https://')) or 'https://' + url
WithScheme(s) ==
    IF StartsWith(s, Http) \/ StartsWith(s, Https) THEN s ELSE Https \o s

\* urlsplit drops ASCII tab and newline characters anywhere in the URL.
RemoveUnsafe(s) == SelectSeq(s, LAMBDA c : c \notin {"\t", "\n", "\r"})

\* The first index >= p of s that holds a character of cs; Len(s) + 1 when
\* there is none.
FirstOf(s, cs, p) ==
    LET hits == {i \in p..Len(s) : s[i] \in cs}
    IN  IF hits = {} THEN Len(s) + 1 ELSE CHOOSE i \in hits : \A j \in hits : i <= j

\* The last index of s that holds a character of cs; 0 when there is none.
LastOf(s, cs) ==
    LET hits == {i \in 1..Len(s) : s[i] \in cs}
    IN  IF hits = {} THEN 0 ELSE CHOOSE i \in hits : \A j \in hits : j <= i

\* s up to, and s after, its first character of cs.
Before(s, cs) == SubSeq(s, 1, FirstOf(s, cs, 1) - 1)
After(s, cs) == SubSeq(s, FirstOf(s, cs, 1) + 1, Len(s))

\* urlsplit's ValueError for a netloc with an unmatched square bracket.
NetlocRaises(netloc) ==
    (\E i \in 1..Len(netloc) : netloc[i] = "[") # (\E i \in 1..Len(netloc) : netloc[i] = "]")

\* The parts of what follows 'scheme:' in a URL: the network location runs from
\* after '//' to the first of '/', '?', '#'; of the rest, the fragment is cut
\* at the first '#' and the query at the first '?'.
UrlParts(rest, d) ==
    [netloc |-> SubSeq(rest, 3, d - 1),
     path |-> Before(Before(SubSeq(rest, d, Len(rest)), {"#"}), {"?"}),
     query |-> After(Before(SubSeq(rest, d, Len(rest)), {"#"}), {"?"}),
     raises |-> NetlocRaises(SubSeq(rest, 3, d - 1))]

SchemeRest(rest) == UrlParts(rest, FirstOf(rest, {"/", "?", "#"}, 3))

\* urlparse(url) for a url that starts with http:// or https://.
ParseUrl(u) == SchemeRest(After(RemoveUnsafe(u), {":"}))

\* parsed_url.hostname: the netloc after the last '@', up to the first ':',
\* lowercased; None when empty.  A bracketed (IP literal) host is never one of
\* the YouTube hosts and is given as None.
HostOf(hostinfo) ==
    IF Before(hostinfo, {":"}) = <<>>
          \/ (\E i \in 1..Len(hostinfo) : hostinfo[i] \in {"[", "]"})
    THEN None ELSE Some(LowerStr(Before(hostinfo, {":"})))

HostName(netloc) == HostOf(SubSeq(netloc, LastOf(netloc, {"@"}) + 1, Len(netloc)))

HexDigits == Digits \cup {"a", "b", "c", "d", "e", "f", "A", "B", "C", "D", "E", "F"}

\* The character a percent escape %h1h2 decodes to.
DecodeHex(h1, h2) ==
    LET h == <<ToUpper(h1), ToUpper(h2)>>
    IN  CASE h = <<"0", "A">> -> "\n"
          [] h = <<"2", "0">> -> " "
          [] h = <<"2", "D">> -> "-"
          [] h = <<"5", "F">> -> "_"
          [] h = <<"5", "1">> -> "Q"
          [] OTHER -> OtherChar

\* urllib.parse.unquote, from index p.
RECURSIVE UnquoteFrom(_, _)
UnquoteFrom(s, p) ==
    LET esc == {i \in p..(Len(s) - 2) :
                   s[i] = "%" /\ s[i + 1] \in HexDigits /\ s[i + 2] \in HexDigits}
    IN  IF esc = {} THEN SubSeq(s, p, Len(s))
        ELSE LET q == CHOOSE i \in esc : \A j \in esc : i <= j
             IN  SubSeq(s, p, q - 1) \o <<DecodeHex(s[q + 1], s[q + 2])>>
                     \o UnquoteFrom(s, q + 3)

\* The decoding parse_qs applies to a name and to a value.
QsDecode(s) == UnquoteFrom([i \in 1..Len(s) |-> IF s[i] = "+" THEN " " ELSE s[i]], 1)

\* parse_qs(query).get('v', [None])[0]: the fields are cut at '&', a field
\* without '=' or with an empty value is dropped, and the first value whose
\* decoded name is 'v' is returned.
QueryParamV(query) ==
    LET fields == Split(query, <<"&">>)
        eq == [k \in 1..Len(fields) |-> Find(fields[k], <<"=">>, 1)]
        kept == {k \in 1..Len(fields) : eq[k] # 0 /\ eq[k] < Len(fields[k])}
        decoded == [k \in kept |->
                       [name |-> QsDecode(SubSeq(fields[k], 1, eq[k] - 1)),
                        value |-> QsDecode(SubSeq(fields[k], eq[k] + 1, Len(fields[k])))]]
        vs == {k \in kept : decoded[k].name = <<"v">>}
    IN  IF vs = {} THEN None
        ELSE Some(decoded[CHOOSE k \in vs : \A j \in vs : k <= j].value)

YouTubeHosts == { <<"w", "w", "w", ".", "y", "o", "u", "t", "u", "b", "e", ".", "c", "o", "m">>,
                  <<"y", "o", "u", "t", "u", "b", "e", ".", "c", "o", "m">>,
                  <<"m", ".", "y", "o", "u", "t", "u", "b", "e", ".", "c", "o", "m">> }
YoutuBe == <<"y", "o", "u", "t", "u", ".", "b", "e">>
PathWatch == <<"/", "w", "a", "t", "c", "h">>
PathEmbed == <<"/", "e", "m", "b", "e", "d", "/">>
PathShorts == <<"/", "s", "h", "o", "r", "t", "s", "/">>
PathLive == <<"/", "l", "i", "v", "e", "/">>

PathPrefixes == <<PathEmbed, PathShorts, PathLive>>

\* path.split(prefix)[1].split('?')[0] for a path that starts with prefix.
SegmentAfter(path, prefix) ==
    Before(IF Find(path, prefix, Len(prefix) + 1) = 0
           THEN SubSeq(path, Len(prefix) + 1, Len(path))
           ELSE SubSeq(path, Len(prefix) + 1, Find(path, prefix, Len(prefix) + 1) - 1),
           {"?"})

\* The same for the first of '/embed/', '/shorts/', '/live/' the path starts
\* with; None when it starts with none of them.
PathSegment(path) ==
    LET starts == {k \in 1..Len(PathPrefixes) : StartsWith(path, PathPrefixes[k])}
    IN  IF starts = {} THEN None
        ELSE Some(SegmentAfter(path, PathPrefixes[CHOOSE k \in starts : \A j \in starts : k <= j]))

\* The host-specific path rules: the candidate identifier of a parsed URL.
UrlparseCandidate(parsed, host) ==
    IF parsed.raises \/ ~host.some THEN None
    ELSE IF host.val \in YouTubeHosts
    THEN (IF parsed.path = PathWatch THEN QueryParamV(parsed.query)
          ELSE PathSegment(parsed.path))
    ELSE IF host.val = YoutuBe
    THEN Some(SubSeq(parsed.path, 2, Len(parsed.path)))
    ELSE None

ValidOrNone(candidate) ==
    IF candidate.some /\ IsValidVideoId(candidate.val) THEN candidate ELSE None

ParsedCandidate(parsed) == UrlparseCandidate(parsed, HostName(parsed.netloc))

\* _extract_with_urlparse: an exception raised while parsing is caught and
\* gives None, and so does a candidate that does not validate.
ExtractWithUrlparse(s) == ValidOrNone(ParsedCandidate(ParseUrl(WithScheme(s))))

\* The rest of extract_video_id once the patterns were tried.
PatternsThenUrlparse(s, byPattern) ==
    IF byPattern.some THEN byPattern ELSE ExtractWithUrlparse(s)

\* extract_video_id without its stripping of the input.
ExtractStripped(s) == PatternsThenUrlparse(s, ExtractWithPatterns(s))

\* URLExtractor.extract_video_id (app/services) and its copy in
\* youtube_transcriber.py: strip, the patterns, then the URL-parsing fallback.
ExtractVideoId(u) == IF u = <<>> THEN None ELSE ExtractStripped(Strip(u))

-----------------------------------------------------------------------------
(* The inputs of a request: how the URL string is put together *)

ValidIds == { <<"d", "Q", "w", "4", "-", "9", "W", "g", "_", "c", "Q">> }
InvalidIds == { <<"d", "Q", "w", "4", "-", "9", "W", "g", "_", "c">>,
                <<"d", "Q", "w", "4", "-", "9", "W", "g", "!", "c", "Q">>,
                <<"d", "Q", "w", "4", "-", "9", "W", "g", "_", "c", KelvinSign>>,
                <<>> }

\* The six URL shapes of the contract, the same with the host in another
\* letter case, and the bare identifier.
SupportedShapes == {
    <<"y", "o", "u", "t", "u", "b", "e", ".", "c", "o", "m", "/", "w", "a", "t", "c", "h", "?", "v", "=">>,
    <<"y", "o", "u", "t", "u", ".", "b", "e", "/">>,
    <<"y", "o", "u", "t", "u", "b", "e", ".", "c", "o", "m", "/", "e", "m", "b", "e", "d", "/">>,
    <<"y", "o", "u", "t", "u", "b", "e", ".", "c", "o", "m", "/", "s", "h", "o", "r", "t", "s", "/">>,
    <<"y", "o", "u", "t", "u", "b", "e", ".", "c", "o", "m", "/", "l", "i", "v", "e", "/">>,
    <<"m", ".", "y", "o", "u", "t", "u", "b", "e", ".", "c", "o", "m", "/", "w", "a", "t", "c", "h", "?", "v", "=">>,
    <<"Y", "o", "u", "T", "u", "b", "e", ".", "C", "O", "M", "/", "w", "a", "t", "c", "h", "?", "v", "=">>,
    <<"Y", "o", "u", "t", "u", ".", "B", "e", "/">> }

\* Another host, another path form, free text.
OtherShapes == {
    <<"n", "o", "t", "y", "o", "u", "t", "u", "b", "e", ".", "c", "o", "m", "/", "w", "a", "t", "c", "h", "?", "v", "=">>,
    <<"v", "i", "m", "e", "o", ".", "c", "o", "m", "/">>,
    <<"y", "o", "u", "t", "u", "b", "e", ".", "c", "o", "m", "/", "v", "/">>,
    <<"y", "o", "u", "t", "u", "b", "e", ".", "c", "o", "m", "/", "p", "l", "a", "y", "l", "i", "s", "t", "?", "l", "i", "s", "t", "=">>,
    <<"r", "a", "n", "d", "o", "m", " ", "t", "e", "x", "t">>,
    <<"h", "t", "t", "p", ":", "/", "/", "[", "y", "o", "u", "t", "u", "b", "e", ".", "c", "o", "m", "/", "e", "m", "b", "e", "d", "/">> }

\* Forms of the supported URLs that the contract's list does not spell out: a
\* query parameter before v, a port.
VariantShapes == {
    <<"y", "o", "u", "t", "u", "b", "e", ".", "c", "o", "m", "/", "w", "a", "t", "c", "h", "?", "a", "=", "b", "&", "v", "=">>,
    <<"y", "o", "u", "t", "u", "b", "e", ".", "c", "o", "m", ":", "4", "4", "3", "/", "e", "m", "b", "e", "d", "/">>,
    <<"y", "o", "u", "t", "u", ".", "b", "e", ":", "4", "4", "3", "/">> }

Schemes == {<<>>, Https, Http}
WwwPrefixes == {<<>>, Www}
\* What follows the identifier: nothing, a 12th identifier character, an
\* escaped newline, a further query parameter.
Suffixes == {<<>>, <<"X">>, <<"%", "0", "A">>, <<"&", "t", "=", "1">>}
\* Whitespace around the input: none, or a space before and a newline after.
Pads == {<<>>, <<" ">>}

AllShapes == SupportedShapes \cup OtherShapes \cup VariantShapes \cup {<<>>}

\* Every shape with a valid identifier under every padding, scheme and www
\* prefix; every shape with every identifier and suffix, unpadded.
UrlRequests ==
    [pad : Pads, scheme : Schemes, www : WwwPrefixes, shape : AllShapes,
     id : ValidIds, suffix : {<<>>}]
    \cup
    [pad : {<<>>}, scheme : {<<>>, Https}, www : WwwPrefixes, shape : AllShapes,
     id : ValidIds \cup InvalidIds, suffix : Suffixes]

\* The string a request record stands for.
Render(r) ==
    r.pad \o r.scheme \o r.www \o r.shape \o r.id \o r.suffix
        \o (IF r.pad = <<>> THEN <<>> ELSE <<"\n">>)

\* The input is, once trimmed, a bare 11-character ID or one of the supported
\* URL shapes around one.
IsSupportedInput(r) ==
    /\ r.id \in ValidIds
    /\ r.suffix = <<>>
    /\ \/ r.shape \in SupportedShapes
       \/ r.shape = <<>> /\ r.scheme = <<>> /\ r.www = <<>>

\* Exactly 11 characters of [A-Za-z0-9_-].
WellFormedId(v) == Len(v) = IdLen /\ \A i \in 1..Len(v) : IdChar(v[i])

\* The input is neither: another host or path, free text, the empty string, or
\* an identifier segment that is not exactly 11 valid characters.
IsUnsupportedInput(r) ==
    \/ r.shape \in OtherShapes
    \/ /\ \/ r.shape \in SupportedShapes
          \/ r.shape = <<>> /\ r.scheme = <<>> /\ r.www = <<>>
       /\ r.suffix \in {<<>>, <<"X">>}
       /\ ~WellFormedId(r.id \o r.suffix)

-----------------------------------------------------------------------------
(* The providers, as one request sees them *)

\* meta: yt-dlp's extract_info for the metadata; transcript: how the transcript
\* retrieval goes (the track listing raises, no selector finds a track, the
\* fetch raises, the formatted text is empty, there is text); chap: what the
\* chapter lookups find.
ProviderEnvs ==
    [meta : {"ok", "raise"},
     transcript : {"list_raises", "no_track", "fetch_raises", "empty", "text"},
     chap : {"metadata", "description", "none", "raise"}]

\* Python exceptions: an HTTPException carries a status code and a detail, any
\* other exception a message.
HTTPException(status, detail) == [exc |-> "HTTPException", status |-> status, detail |-> detail]
Exception(msg) == [exc |-> "Exception", status |-> 0, detail |-> msg]
NoException == [exc |-> "none", status |-> 0, detail |-> ""]

\* extract_transcript / _extract_transcript up to the formatted text: the
\* provider calls it makes, in order, and how it ends.
\* end: "text" | "empty" | "no_track" | "raise"
TranscriptCalls(env) ==
    CASE env.transcript = "list_raises" -> [calls |-> <<"list_tracks">>, end |-> "raise"]
      [] env.transcript = "no_track" -> [calls |-> <<"list_tracks">>, end |-> "no_track"]
      [] env.transcript = "fetch_raises" ->
            [calls |-> <<"list_tracks", "fetch_track">>, end |-> "raise"]
      [] OTHER -> [calls |-> <<"list_tracks", "fetch_track">>, end |-> env.transcript]

\* ChapterService.get_chapters: one extract_info call for the metadata
\* strategy and, when that gives no chapters, one more for the description.
ChapterCalls(env) ==
    IF env.chap = "metadata" THEN <<"chapter_info">>
    ELSE <<"chapter_info", "chapter_info">>

-----------------------------------------------------------------------------
(* The web handler: POST /api/transcript (app/main.py get_transcript) *)

\* The body of the handler's try block once the identifier is known: what it
\* raises (NoException when it returns the response).
WebBodyRaises(id, env) ==
    IF ~id.some THEN HTTPException(400, "Invalid YouTube URL")
    ELSE IF TranscriptCalls(env).end \in {"raise", "no_track"}
    THEN Exception("Failed to extract transcript")
    ELSE NoException

\* get_transcript's response: `except Exception as e` catches whatever the
\* body raised, the HTTPException(400) included, and raises
\* HTTPException(500, detail=str(e)).
WebResponse(id, env) ==
    LET e == WebBodyRaises(id, env)
    IN  IF e.exc = "none" THEN [ok |-> TRUE, status |-> 200, error |-> ""]
        ELSE [ok |-> FALSE, status |-> 500, error |-> e.detail]

\* The provider calls of the handler with the identifier check after the
\* transcript service call.
WebCallsUnchecked(id, env) ==
    <<"metadata">> \o TranscriptCalls(env).calls

\* The provider calls of the handler, in order.
WebCalls(id, env) ==
    IF ~id.some THEN <<>>
    ELSE <<"metadata">> \o TranscriptCalls(env).calls
            \o (IF WebBodyRaises(id, env).exc = "none" THEN ChapterCalls(env) ELSE <<>>)

-----------------------------------------------------------------------------
(* The CLI: YouTubeTranscriber.process_url *)

CliOptions == [include_metadata : BOOLEAN, output : {"stdout", "file"}]

CliCalls(id, opt, env) ==
    IF ~id.some THEN <<>>
    ELSE (IF opt.include_metadata THEN <<"metadata">> ELSE <<>>)
            \o TranscriptCalls(env).calls

\* process_url's return value (ok) and the error it printed.
CliResult(id, opt, env) ==
    IF ~id.some
    THEN [ok |-> FALSE, status |-> 1, error |-> "Could not extract video ID from URL"]
    ELSE IF TranscriptCalls(env).end # "text"
    THEN [ok |-> FALSE, status |-> 1, error |-> "No transcript available"]
    ELSE [ok |-> TRUE, status |-> 0, error |-> ""]

-----------------------------------------------------------------------------
(* The GUI: process_video, _process_video_thread and the callbacks *)

GuiInit == [process_btn |-> "normal", url_entry |-> "normal",
            save_btn |-> "disabled", copy_btn |-> "disabled",
            status |-> "Ready", info_shown |-> FALSE, has_transcript |-> FALSE]

\* A callback scheduled with root.after, run on the main thread.
RunCallback(g, cb) ==
    CASE cb.fn = "_show_error" ->
            [g EXCEPT !.status = "Error", !.process_btn = "normal",
                      !.url_entry = "normal"]
      [] cb.fn = "set_status" -> [g EXCEPT !.status = "Extracting"]
      [] cb.fn = "_update_video_info" -> [g EXCEPT !.info_shown = TRUE]
      [] cb.fn = "_show_transcript" ->
            [g EXCEPT !.status = "Success", !.save_btn = "normal",
                      !.copy_btn = "normal", !.process_btn = "normal",
                      !.url_entry = "normal", !.has_transcript = TRUE]

Callback(fn, arg) == [fn |-> fn, arg |-> arg]

\* The provider calls _process_video_thread makes, in order.
GuiWorkerCalls(id, include_metadata, env) ==
    IF ~id.some THEN <<>>
    ELSE (IF include_metadata THEN <<"metadata">> ELSE <<>>) \o TranscriptCalls(env).calls

\* The callbacks _process_video_thread schedules with root.after, in order.
GuiWorkerCallbacks(id, include_metadata, env) ==
    IF ~id.some THEN <<Callback("_show_error", "Invalid YouTube URL or video ID")>>
    ELSE <<Callback("set_status", "")>>
        \o (IF include_metadata THEN <<Callback("_update_video_info", "")>> ELSE <<>>)
        \o (IF TranscriptCalls(env).end = "text"
            THEN <<Callback("_show_transcript", "")>>
            ELSE <<Callback("_show_error", "No transcript available")>>)

-----------------------------------------------------------------------------
(* The request state machine *)

FmtIdle ==
    /\ fpc = "off" /\ segments = <<>> /\ sentences = <<>> /\ sidx = 0
    /\ current_paragraph = <<>> /\ paragraphs = <<>> /\ fresult = None
    /\ webresult = None /\ flog = [rule |-> "none", sentence |-> <<>>, before |-> <<>>]

ChapIdle ==
    /\ cpc = "off" /\ chapters = <<>> /\ cidx = 0 /\ cstrategy = "none"
    /\ info = [has |-> "absent", list |-> <<>>, description |-> None,
               raises |-> [first |-> FALSE, second |-> FALSE]]

\* No request is in the stages of SpecRetrieve.
NoOptions == [include_metadata |-> FALSE, output |-> "none"]
NoMetadata == [env |-> "none", raised |-> FALSE, empty |-> TRUE,
               title |-> "", duration |-> 0, uploader |-> ""]
NoTracks == [manual |-> <<>>, generated |-> <<>>]
NoTranscript == [env |-> [list |-> "none", tracks |-> NoTracks, fetch |-> "none"],
                 calls |-> <<>>, log |-> <<>>, track |-> None, failed |-> FALSE,
                 text |-> ""]
NoResponse == [kind |-> "none", status |-> 0, error |-> "", header |-> FALSE,
               title |-> "", duration |-> 0, transcript |-> "", chapters |-> <<>>,
               info |-> [has |-> "absent", list |-> <<>>, description |-> None,
                         raises |-> [first |-> FALSE, second |-> FALSE]],
               printed |-> FALSE, written |-> FALSE]

RetIdle ==
    /\ rfront = "none" /\ rpc = "off" /\ roptions = NoOptions
    /\ metadata = NoMetadata /\ transcript_data = NoTranscript /\ response = NoResponse

\* process_batch is not running.
BatchIdle ==
    /\ bpc = "off" /\ urls = <<>> /\ output_dir = FALSE /\ bidx = 0
    /\ processed = <<>> /\ results = <<>>
    /\ outcomes = <<>> /\ files = <<>> /\ exit_code = None

NoConversion == [pc |-> "off", text |-> <<>>, seconds |-> None,
                 text_back |-> None, seconds_back |-> None]

\* No conversion is being followed.
ConvIdle == conv = NoConversion

\* No metadata: the {} of _process_video_thread line 196.
NoMd == [req |-> 0]

\* The metadata dict fetched for request n.
Md(n) == [req |-> n]

Window == [process_btn |-> "normal", url_entry |-> "normal",
           save_btn |-> "disabled", copy_btn |-> "disabled",
           status |-> "Ready", url_var |-> "", include_metadata |-> TRUE,
           text |-> <<>>, info_shown |-> FALSE, info |-> NoMd, focus |-> "none"]

NoCurrent == [has |-> FALSE, transcript |-> 0, metadata |-> NoMd]

NothingSaved == [file |-> None, clipboard |-> 0]

\* The window as __init__ leaves it; no thread, nothing scheduled.
WinIdle ==
    /\ window = Window /\ current = NoCurrent /\ threads = {} /\ mainloop = <<>>
    /\ submitted = 0 /\ trace = {} /\ saved = NothingSaved

NoRequest == [pad |-> <<>>, scheme |-> <<>>, www |-> <<>>, shape |-> <<>>,
              id |-> <<>>, suffix |-> <<>>]
NoOutcome == [ok |-> FALSE, status |-> 0, error |-> ""]

\* The web server, the CLI and the GUI are three programs: a run is of one.
Init ==
    /\ frontend \in {"web", "cli", "gui"} /\ pc = "idle" /\ ureq = NoRequest /\ url = <<>>
    /\ video_id = None /\ calls = <<>> /\ outcome = NoOutcome
    /\ afterQueue = <<>> /\ gui = GuiInit
    /\ FmtIdle /\ ChapIdle /\ RetIdle /\ BatchIdle /\ WinIdle /\ ConvIdle

\* A request arrives at a front-end with some input string.
Begin(r) ==
    /\ pc = "idle"
    /\ frontend \in {"web", "cli"}
    /\ ureq' = r
    /\ url' = Render(r)
    /\ video_id' = None /\ calls' = <<>> /\ outcome' = NoOutcome
    /\ pc' = "extract"
    /\ UNCHANGED <<frontend, afterQueue, gui>>

\* process_video on the main thread: an empty (trimmed) entry is refused with a
\* warning, otherwise the controls are disabled and the worker thread started.
GuiProcessVideo(r) ==
    /\ pc = "idle"
    /\ frontend = "gui"
    /\ gui.process_btn = "normal"
    /\ afterQueue = <<>>
    /\ Strip(Render(r)) # <<>>
    /\ ureq' = r
    /\ url' = Strip(Render(r))
    /\ video_id' = None /\ calls' = <<>> /\ outcome' = NoOutcome
    /\ gui' = [gui EXCEPT !.process_btn = "disabled", !.url_entry = "disabled",
                          !.status = "Processing", !.info_shown = FALSE]
    /\ pc' = "extract"
    /\ UNCHANGED <<frontend, afterQueue>>

\* With a null identifier no provider is consulted and no option read: any
\* environment and any options give the same calls and the same outcome.
AnyEnv == CHOOSE env \in ProviderEnvs : TRUE
AnyOptions == CHOOSE opt \in CliOptions : TRUE

\* The first step of get_transcript (web), process_url (CLI) and
\* _process_video_thread (GUI): the identifier is extracted, and a null
\* identifier ends the request: the web handler raises, process_url prints the
\* error and returns False, the GUI worker schedules _show_error and returns.
ExtractStep ==
    /\ pc = "extract"
    /\ video_id' = ExtractVideoId(url)
    /\ IF video_id'.some
       THEN /\ pc' = "fetch"
            /\ UNCHANGED <<calls, outcome, afterQueue>>
       ELSE /\ pc' = "done"
            /\ calls' = CASE frontend = "web" -> WebCalls(video_id', AnyEnv)
                          [] frontend = "cli" -> CliCalls(video_id', AnyOptions, AnyEnv)
                          [] frontend = "gui" -> GuiWorkerCalls(video_id', TRUE, AnyEnv)
            /\ outcome' = CASE frontend = "web" -> WebResponse(video_id', AnyEnv)
                            [] frontend = "cli" -> CliResult(video_id', AnyOptions, AnyEnv)
                            [] frontend = "gui" -> outcome
            /\ afterQueue' =
                 IF frontend = "gui"
                 THEN afterQueue \o GuiWorkerCallbacks(video_id', TRUE, AnyEnv)
                 ELSE afterQueue
    /\ UNCHANGED <<frontend, ureq, url, gui>>

\* get_transcript, second half: transcript service, chapter service, response.
WebFetch(env) ==
    /\ pc = "fetch" /\ frontend = "web"
    /\ calls' = WebCalls(video_id, env)
    /\ outcome' = WebResponse(video_id, env)
    /\ pc' = "done"
    /\ UNCHANGED <<frontend, ureq, url, video_id, afterQueue, gui>>

\* process_url, second half: metadata, transcript, output.
CliFetch(opt, env) ==
    /\ pc = "fetch" /\ frontend = "cli"
    /\ calls' = CliCalls(video_id, opt, env)
    /\ outcome' = CliResult(video_id, opt, env)
    /\ pc' = "done"
    /\ UNCHANGED <<frontend, ureq, url, video_id, afterQueue, gui>>

\* _process_video_thread, second half.
GuiFetch(include_metadata, env) ==
    /\ pc = "fetch" /\ frontend = "gui"
    /\ calls' = GuiWorkerCalls(video_id, include_metadata, env)
    /\ afterQueue' = afterQueue \o GuiWorkerCallbacks(video_id, include_metadata, env)
    /\ pc' = "done"
    /\ UNCHANGED <<frontend, ureq, url, video_id, outcome, gui>>

\* The Tk event loop runs the oldest scheduled callback.
GuiAfter ==
    /\ afterQueue # <<>>
    /\ gui' = RunCallback(gui, Head(afterQueue))
    /\ afterQueue' = Tail(afterQueue)
    /\ outcome' =
         IF Head(afterQueue).fn = "_show_error"
         THEN [ok |-> FALSE, status |-> 0, error |-> Head(afterQueue).arg]
         ELSE IF Head(afterQueue).fn = "_show_transcript"
         THEN [ok |-> TRUE, status |-> 0, error |-> ""]
         ELSE outcome
    /\ UNCHANGED <<frontend, pc, ureq, url, video_id, calls>>

\* The request is over: its locals are gone, the front-end waits for the next.
Finish ==
    /\ pc = "done"
    /\ afterQueue = <<>>
    /\ pc' = "idle"
    /\ ureq' = NoRequest /\ url' = <<>>
    /\ video_id' = None /\ calls' = <<>> /\ outcome' = NoOutcome
    /\ UNCHANGED <<frontend, afterQueue, gui>>

OthersIdle == UNCHANGED <<fmtVars, chapVars, retVars, batchVars, winVars, conv>>

Next ==
    \/ \E r \in UrlRequests : Begin(r) /\ OthersIdle
    \/ \E r \in UrlRequests : GuiProcessVideo(r) /\ OthersIdle
    \/ ExtractStep /\ OthersIdle
    \/ \E env \in ProviderEnvs : WebFetch(env) /\ OthersIdle
    \/ \E opt \in CliOptions, env \in ProviderEnvs : CliFetch(opt, env) /\ OthersIdle
    \/ \E im \in BOOLEAN, env \in ProviderEnvs : GuiFetch(im, env) /\ OthersIdle
    \/ GuiAfter /\ OthersIdle
    \/ Finish /\ OthersIdle

Spec == Init /\ [][Next]_vars

-----------------------------------------------------------------------------
(* Claims about the identifier extractor and the front-ends (Spec) *)

Extracted == pc \in {"fetch", "done"}

\* C1: for every input that, once trimmed, is a bare 11-character ID or one of
\* the supported URL shapes (with or without scheme and www., host in any
\* letter case), extract_video_id returns exactly the embedded ID, its letter
\* case unchanged.
C1_SupportedInputGivesId ==
    (Extracted /\ IsSupportedInput(ureq)) => video_id = Some(ureq.id)

\* A padded https://www. URL with a mixed-case host went through the extractor.
C1_Witness ==
    /\ Extracted /\ IsSupportedInput(ureq)
    /\ ureq.pad # <<>> /\ ureq.scheme = Https /\ ureq.www = Www
    /\ ureq.shape[1] = "Y"
    /\ video_id = Some(ureq.id)

\* C2: for every input that is neither a bare ID nor a supported URL shape
\* (another host, another path form, an identifier segment that is not exactly
\* 11 valid characters, free text, the empty string), extract_video_id returns
\* null.
C2_UnsupportedInputGivesNull ==
    (Extracted /\ IsUnsupportedInput(ureq)) => video_id = None

\* C3: every value extract_video_id returns is null or a string of exactly 11
\* characters, all of [A-Za-z0-9_-].
C3_ReturnedIdIsWellFormed ==
    video_id.some => WellFormedId(video_id.val)

InvalidUrlErrors == {"Invalid YouTube URL", "Could not extract video ID from URL",
                     "Invalid YouTube URL or video ID"}

\* C4: when the extraction returns null, no provider call of any kind is made
\* for the request, and the request ends in the front-end's invalid-URL
\* failure: the web handler's error response, process_url's False, the GUI's
\* _show_error.
C4_NullIdNoProviderCall ==
    ~video_id.some =>
        /\ calls = <<>>
        /\ pc = "done" =>
             \/ /\ frontend \in {"web", "cli"}
                /\ ~outcome.ok /\ outcome.error \in InvalidUrlErrors
             \/ /\ frontend = "gui"
                /\ \/ afterQueue = <<Callback("_show_error", "Invalid YouTube URL or video ID")>>
                   \/ /\ afterQueue = <<>> /\ gui.status = "Error"
                      /\ ~outcome.ok /\ outcome.error \in InvalidUrlErrors

\* The web handler has answered a request whose input was free text.
C4_Witness ==
    /\ frontend = "web" /\ pc = "done" /\ ~video_id.some
    /\ ureq.shape \in OtherShapes
    /\ ~outcome.ok /\ calls = <<>>

\* C5: POST /api/transcript with an input from which no identifier can be
\* extracted responds 400; 500 is returned only for unexpected failures.
C5_UnresolvableUrlGives400 ==
    (frontend = "web" /\ pc = "done") =>
        /\ ~video_id.some => outcome.status = 400
        /\ outcome.status = 500 => video_id.some

-----------------------------------------------------------------------------
(* SimpleFormatter.format_transcript: the text operations *)

Indices(n) == [i \in 1..n |-> i]

\* The characters of s at the indices idx, in that order.
Pick(s, idx) == [k \in 1..Len(idx) |-> s[idx[k]]]

Chars(s) == {s[i] : i \in 1..Len(s)}

\* s repeated n times.
Rep(s, n) == [i \in 1..(n * Len(s)) |-> s[((i - 1) % Len(s)) + 1]]

\* sep.join(parts)
RECURSIVE JoinWith(_, _)
JoinWith(parts, sep) ==
    IF parts = <<>> THEN <<>>
    ELSE IF Len(parts) = 1 THEN parts[1]
    ELSE parts[1] \o sep \o JoinWith(Tail(parts), sep)

JoinSpace(parts) == JoinWith(parts, <<" ">>)

\* The pieces of s between the cut indices (the cut characters left out).
Pieces(s, cuts) ==
    [k \in 1..(Len(cuts) + 1) |->
        SubSeq(s, IF k = 1 THEN 1 ELSE cuts[k - 1] + 1,
                  IF k = Len(cuts) + 1 THEN Len(s) ELSE cuts[k] - 1)]

NonEmpty(t) == t # <<>>

\* text.replace('\n', ' ')
ReplaceNewlines(s) == [i \in 1..Len(s) |-> IF s[i] = "\n" THEN " " ELSE s[i]]

\* Index i lies in a match of r'\[.*?\]': a '[' at or before i with no ']' in
\* between and a ']' at or after i (the text has no newline at this point).
InAnnotation(s, i) ==
    /\ \E q \in i..Len(s) : s[q] = "]"
    /\ \E p \in 1..i : s[p] = "[" /\ \A k \in p..(i - 1) : s[k] # "]"

\* re.sub(r'\[.*?\]', '', text)
RemoveAnnotations(s) ==
    IF "[" \notin Chars(s) THEN s
    ELSE Pick(s, SelectSeq(Indices(Len(s)), LAMBDA i : ~InAnnotation(s, i)))

\* Lines 107-108: the cleaned text of one fragment.
CleanText(text) == Strip(RemoveAnnotations(Strip(ReplaceNewlines(text))))

\* re.sub(r'\s+', ' ', s)
CollapseWS(s) ==
    Pick([i \in 1..Len(s) |-> IF s[i] \in WS THEN " " ELSE s[i]],
         SelectSeq(Indices(Len(s)), LAMBDA i : ~(s[i] \in WS /\ i > 1 /\ s[i - 1] \in WS)))

Terminators == {".", "!", "?"}

\* re.split(r'(?<=[.!?])\s+', s) on text whose whitespace runs are single
\* spaces: s is cut at every space that follows a terminator.
SplitSentences(s) ==
    Pieces(s, SelectSeq(Indices(Len(s)),
                        LAMBDA i : s[i] = " " /\ i > 1 /\ s[i - 1] \in Terminators))

\* str.split(): the maximal runs of non-whitespace characters.
Words(s) ==
    SelectSeq(Pieces(s, SelectSeq(Indices(Len(s)), LAMBDA i : s[i] \in WS)), NonEmpty)

LongTextLen == 200
MinWords == 15
MaxWords == 20

\* str.isupper() on one character.
IsUpper(c) == c \in Uppers \/ c = KelvinSign

\* Resegment without the bound of MaxWords.
RECURSIVE ResegmentUncapped(_, _, _, _)
ResegmentUncapped(words, i, cur, acc) ==
    IF i > Len(words)
    THEN IF cur # <<>> THEN Append(acc, JoinSpace(cur)) ELSE acc
    ELSE IF Len(cur) + 1 >= MinWords /\ i < Len(words) /\ IsUpper(words[i + 1][1])
         THEN ResegmentUncapped(words, i + 1, <<>>, Append(acc, JoinSpace(Append(cur, words[i]))))
         ELSE ResegmentUncapped(words, i + 1, Append(cur, words[i]), acc)

\* Lines 123-137: the word-count re-segmentation, word i next, cur the words
\* of current_sentence, acc the sentences closed so far.
RECURSIVE Resegment(_, _, _, _)
Resegment(words, i, cur, acc) ==
    IF i > Len(words)
    THEN IF cur # <<>> THEN Append(acc, JoinSpace(cur)) ELSE acc
    ELSE IF /\ Len(cur) + 1 >= MinWords
            /\ \/ i < Len(words) /\ IsUpper(words[i + 1][1])
               \/ Len(cur) + 1 >= MaxWords
         THEN Resegment(words, i + 1, <<>>, Append(acc, JoinSpace(Append(cur, words[i]))))
         ELSE Resegment(words, i + 1, Append(cur, words[i]), acc)

\* Lines 116-137: the sentences of full_text.
FallbackOr(full_text, split) ==
    IF Len(split) <= 3 /\ Len(full_text) > LongTextLen
    THEN Resegment(Words(full_text), 1, <<>>, <<>>)
    ELSE split

SentencesOf(full_text) == FallbackOr(full_text, SplitSentences(full_text))

-----------------------------------------------------------------------------
(* SimpleFormatter.format_transcript: fragments, grouping, post-processing *)

\* A fragment as format_transcript sees it: kind "object" has a text
\* attribute, kind "dict" is a dict (has: the 'text' key is present), any
\* other value goes through str().  text is Some(chars) for a string and
\* None for Python's None.
Fragment(kind, has, text, repr) == [kind |-> kind, has |-> has, text |-> text, repr |-> repr]

\* Lines 100-105: the text taken from one fragment.
TextOf(seg) ==
    IF seg.kind = "object" THEN seg.text
    ELSE IF seg.kind = "dict" THEN (IF seg.has THEN seg.text ELSE Some(<<>>))
    ELSE Some(seg.repr)

\* Line 107: text.replace raises AttributeError when text is not a string.
FragmentRaises(seg) == ~TextOf(seg).some

CleanOf(seg) == CleanText(TextOf(seg).val)

\* Lines 97-111: all_text.
AllText(segs) == SelectSeq([k \in 1..Len(segs) |-> CleanOf(segs[k])], NonEmpty)

\* Lines 113-114: full_text.
FullText(segs) == CollapseWS(JoinSpace(AllText(segs)))

\* Lines 156-159: the discourse markers.
Markers ==
    {<<"n", "o", "w", " ">>,
     <<"n", "e", "x", "t", ",">>,
     <<"h", "o", "w", "e", "v", "e", "r", ",">>,
     <<"b", "u", "t", " ">>,
     <<"s", "o", " ">>,
     <<"t", "h", "e", "r", "e", "f", "o", "r", "e">>,
     <<"f", "u", "r", "t", "h", "e", "r", "m", "o", "r", "e">>,
     <<"a", "d", "d", "i", "t", "i", "o", "n", "a", "l", "l", "y">>,
     <<"f", "i", "n", "a", "l", "l", "y">>,
     <<"i", "n", " ", "c", "o", "n", "c", "l", "u", "s", "i", "o", "n">>,
     <<"l", "e", "t", " ", "m", "e">>,
     <<"l", "e", "t", "'", "s">>,
     <<"o", "k", "a", "y">>,
     <<"a", "l", "r", "i", "g", "h", "t">>,
     <<"w", "e", "l", "l", ",">>}

\* sentence.lower().startswith(marker)
StartsWithLower(s, marker) ==
    /\ Len(marker) <= Len(s)
    /\ \A k \in 1..Len(marker) : ToLower(s[k]) = marker[k]

IsMarker(sentence) == \E marker \in Markers : StartsWithLower(sentence, marker)

MaxSentences == 4
MaxParagraphLen == 500

\* Lines 152-160: which rule applies once the sentence has been appended;
\* n is len(current_paragraph) and textLen is len(paragraph_text) after it.
BreakRule(n, textLen, sentence) ==
    IF n >= MaxSentences THEN "count"
    ELSE IF textLen > MaxParagraphLen /\ n >= 2 THEN "length"
    ELSE IF IsMarker(sentence) /\ n > 1 THEN "marker"
    ELSE "none"

\* The marker branch without the move: the sentence stays where it is.
AfterSentenceNoMove(cp, paras, sentence, rule) ==
    IF rule \in {"count", "length"}
    THEN [cp |-> <<>>, paras |-> Append(paras, JoinSpace(Append(cp, sentence)))]
    ELSE [cp |-> Append(cp, sentence), paras |-> paras]

\* The marker branch that starts the new paragraph empty.
AfterSentenceDropped(cp, paras, sentence, rule) ==
    IF rule \in {"count", "length"}
    THEN [cp |-> <<>>, paras |-> Append(paras, JoinSpace(Append(cp, sentence)))]
    ELSE IF rule = "marker"
    THEN [cp |-> <<>>, paras |-> Append(paras, JoinSpace(cp))]
    ELSE [cp |-> Append(cp, sentence), paras |-> paras]

\* Lines 160-169: current_paragraph and paragraphs after the iteration.
AfterSentence(cp, paras, sentence, rule) ==
    IF rule \in {"count", "length"}
    THEN [cp |-> <<>>, paras |-> Append(paras, JoinSpace(Append(cp, sentence)))]
    ELSE IF rule = "marker"
    THEN [cp |-> <<sentence>>, paras |-> Append(paras, JoinSpace(cp))]
    ELSE [cp |-> Append(cp, sentence), paras |-> paras]

\* Line 178 with the capitalisation left out.
CapitalizeNot(para) == para

\* Line 178: para[0].upper() + para[1:], or para.upper() for one character.
Capitalize(para) ==
    IF Len(para) > 1 THEN <<ToUpper(para[1])>> \o Tail(para)
    ELSE [i \in 1..Len(para) |-> ToUpper(para[i])]

\* Lines 179-180: a period is appended unless the last character is . ! or ?
Terminate(para) ==
    IF para[Len(para)] \notin Terminators THEN Append(para, ".") ELSE para

\* Lines 175-177: the stripped, non-empty paragraphs.
KeptParagraphs(paras) ==
    SelectSeq([k \in 1..Len(paras) |-> Strip(paras[k])], NonEmpty)

Polish(kept) == [k \in 1..Len(kept) |-> Terminate(Capitalize(kept[k]))]

\* Lines 174-183.
FormattedParagraphs(paras) == Polish(KeptParagraphs(paras))

ParagraphSep == <<"\n", "\n">>

-----------------------------------------------------------------------------
(* TranscriptService: the library TextFormatter and _clean_transcript *)

\* youtube_transcript_api's TextFormatter.format_transcript: the fragments'
\* texts joined by newlines.
TextFormatter(segs) == JoinWith([k \in 1..Len(segs) |-> TextOf(segs[k]).val], <<"\n">>)

\* Line 143 with the test on the first character left out.
KeepLineAlways(line) == line # <<>>

\* Line 143: the stripped line is kept when it is non-empty and does not
\* start with '[' or '('.
KeepLine(line) == line # <<>> /\ line[1] \notin {"[", "("}

\* Line 145: ' '.join(line.split())
SquashLine(line) == JoinSpace(Words(line))

\* Lines 138-146: cleaned_lines.
CleanedLines(lines) ==
    LET kept == SelectSeq([k \in 1..Len(lines) |-> Strip(lines[k])], KeepLine)
    IN  [k \in 1..Len(kept) |-> SquashLine(kept[k])]

\* _clean_transcript
CleanTranscript(transcript) ==
    IF transcript = <<>> THEN <<>>
    ELSE JoinWith(CleanedLines(Split(transcript, <<"\n">>)), ParagraphSep)

-----------------------------------------------------------------------------
(* Fragment sequences *)

LongWord == <<"a", "b", "c", "d", "e", "f", "g", "h", "i", "j", "k", "l", "m", "n", "o", "p", "q", "r", " ">>
PlainWord == <<"w", "o", "r", "d", "w", "o", "r", "d", "w", " ">>
CapitalWord == <<"W", "o", "r", "d", "w", "o", "r", "d", "w", " ">>

\* One sentence of 251 characters.
LongSentence == Rep(LongWord, 13) \o <<"e", "n", "d", ".">>
\* One sentence of 254 characters that begins with a marker.
LongMarkerSentence == <<"s", "o", " ">> \o LongSentence
\* 22 words, 219 characters, no punctuation; the 17th word is capitalised.
Unpunctuated == Rep(PlainWord, 16) \o CapitalWord \o Rep(PlainWord, 4) \o <<"w", "o", "r", "d", "w", "o", "r", "d", "w">>

\* Two sentences, 506 characters; the second begins with a marker.
TwoLongSentences == LongSentence \o <<" ">> \o LongMarkerSentence

FragmentLibrary ==
    {Fragment("dict", TRUE, Some(<<"2", " ", "a", "p", "p", "l", "e", "s">>), <<>>),
     Fragment("object", TRUE, Some(<<"o", "n", "e", ".", " ", "t", "w", "o", "!", " ", "t", "h", "r", "e", "e", "?", " ", "f", "o", "u", "r", ".">>), <<>>),
     Fragment("dict", TRUE, Some(<<"o", "k", ".", " ", "f", "i", "n", "e", ".", " ", "S", "o", " ", "w", "h", "a", "t", "?">>), <<>>),
     Fragment("object", TRUE, Some(<<"[", "m", "u", "s", "i", "c", "]", " ", "b", "u", "t", "\n", "(", "o", "h", ")", "\n", "w", "h", "y", " ", " ", "n", "o", "t">>), <<>>),
     Fragment("object", TRUE, Some(TwoLongSentences), <<>>),
     Fragment("object", TRUE, Some(Unpunctuated), <<>>),
     Fragment("dict", FALSE, None, <<>>),
     Fragment("dict", TRUE, None, <<>>),
     Fragment("other", FALSE, None, <<"5">>)}

MaxFragments == 2

RECURSIVE SeqsUpTo(_, _)
SeqsUpTo(S, n) ==
    IF n = 0 THEN {<<>>}
    ELSE LET shorter == SeqsUpTo(S, n - 1)
         IN  shorter \cup {Append(q, x) : q \in {r \in shorter : Len(r) = n - 1}, x \in S}

FragmentSeqs == SeqsUpTo(FragmentLibrary, MaxFragments)

\* The fragments a transcript fetch delivers: each carries a string.
Fetched(segs) == \A k \in 1..Len(segs) : segs[k].kind \in {"object", "dict"} /\ segs[k].has /\ segs[k].text.some

-----------------------------------------------------------------------------
(* SimpleFormatter.format_transcript as a state machine (SpecFormat) *)

ReqIdle ==
    /\ frontend = "none" /\ pc = "off" /\ ureq = NoRequest /\ url = <<>>
    /\ video_id = None /\ calls = <<>> /\ outcome = NoOutcome
    /\ afterQueue = <<>> /\ gui = GuiInit

\* flog: the last iteration of the grouping loop (the sentence, the
\* current_paragraph it met and the rule that applied).
NoIteration == [rule |-> "none", sentence |-> <<>>, before |-> <<>>]

InitFormat ==
    /\ ReqIdle /\ ChapIdle /\ RetIdle /\ BatchIdle /\ WinIdle /\ ConvIdle
    /\ fpc = "idle" /\ segments = <<>> /\ sentences = <<>> /\ sidx = 0
    /\ current_paragraph = <<>> /\ paragraphs = <<>> /\ fresult = None
    /\ webresult = None /\ flog = NoIteration

\* Lines 92-95: the call; an empty sequence returns "" at once.
FormatCall(segs) ==
    /\ fpc = "idle"
    /\ segments' = segs
    /\ fpc' = IF segs = <<>> THEN "done" ELSE "collect"
    /\ fresult' = IF segs = <<>> THEN Some(<<>>) ELSE None
    /\ UNCHANGED <<sentences, sidx, current_paragraph, paragraphs, webresult, flog>>

\* Lines 97-140: the fragment loop, full_text and the sentences; a fragment
\* whose text is not a string raises out of the function.
CollectText ==
    /\ fpc = "collect"
    /\ IF \E k \in 1..Len(segments) : FragmentRaises(segments[k])
       THEN fpc' = "raised" /\ UNCHANGED <<sentences, sidx>>
       ELSE /\ sentences' = SentencesOf(FullText(segments))
            /\ sidx' = 1
            /\ fpc' = "group"
    /\ UNCHANGED <<segments, current_paragraph, paragraphs, fresult, webresult, flog>>

GroupApply(sentence, rule) ==
    /\ current_paragraph' = AfterSentence(current_paragraph, paragraphs, sentence, rule).cp
    /\ paragraphs' = AfterSentence(current_paragraph, paragraphs, sentence, rule).paras
    /\ flog' = [rule |-> rule, sentence |-> sentence, before |-> current_paragraph]

GroupSentence(sentence) ==
    IF sentence = <<>>
    THEN UNCHANGED <<current_paragraph, paragraphs>> /\ flog' = NoIteration
    ELSE GroupApply(sentence,
                    BreakRule(Len(current_paragraph) + 1,
                              Len(JoinSpace(Append(current_paragraph, sentence))),
                              sentence))

\* Lines 142-169: one iteration of the grouping loop.
GroupStep ==
    /\ fpc = "group" /\ sidx <= Len(sentences)
    /\ GroupSentence(Strip(sentences[sidx]))
    /\ sidx' = sidx + 1
    /\ UNCHANGED <<fpc, segments, sentences, fresult, webresult>>

\* Lines 171-172.
Closed(paras, cp) == IF cp # <<>> THEN Append(paras, JoinSpace(cp)) ELSE paras

\* Lines 171-183: the last paragraph, the post-processing and the return.
GroupEnd ==
    /\ fpc = "group" /\ sidx > Len(sentences)
    /\ paragraphs' = Closed(paragraphs, current_paragraph)
    /\ fresult' = Some(JoinWith(FormattedParagraphs(Closed(paragraphs, current_paragraph)),
                                ParagraphSep))
    /\ fpc' = "done"
    /\ flog' = NoIteration
    /\ UNCHANGED <<segments, sentences, sidx, current_paragraph, webresult>>

\* transcript_service.py lines 94-99: what the web service makes of the same
\* fetched fragments.
WebFormat ==
    /\ fpc = "done" /\ webresult = None /\ Fetched(segments)
    /\ webresult' = Some(CleanTranscript(TextFormatter(segments)))
    /\ UNCHANGED <<fpc, segments, sentences, sidx, current_paragraph, paragraphs,
                   fresult, flog>>

\* The caller has the result (or the exception); the formatter is idle again.
FormatReturn ==
    /\ fpc \in {"done", "raised"}
    /\ fpc' = "idle" /\ segments' = <<>> /\ sentences' = <<>> /\ sidx' = 0
    /\ current_paragraph' = <<>> /\ paragraphs' = <<>> /\ fresult' = None
    /\ webresult' = None /\ flog' = NoIteration

NextFormat ==
    \/ \E segs \in FragmentSeqs : FormatCall(segs) /\ UNCHANGED <<reqVars, chapVars, retVars, batchVars, winVars, conv>>
    \/ CollectText /\ UNCHANGED <<reqVars, chapVars, retVars, batchVars, winVars, conv>>
    \/ GroupStep /\ UNCHANGED <<reqVars, chapVars, retVars, batchVars, winVars, conv>>
    \/ GroupEnd /\ UNCHANGED <<reqVars, chapVars, retVars, batchVars, winVars, conv>>
    \/ WebFormat /\ UNCHANGED <<reqVars, chapVars, retVars, batchVars, winVars, conv>>
    \/ FormatReturn /\ UNCHANGED <<reqVars, chapVars, retVars, batchVars, winVars, conv>>

SpecFormat == InitFormat /\ [][NextFormat]_vars

-----------------------------------------------------------------------------
(* Claims about the reflow engine and the web cleaning (SpecFormat) *)

\* The paragraphs of a formatted text: its pieces between blank lines.
ParagraphsOf(text) == IF text = <<>> THEN <<>> ELSE Split(text, ParagraphSep)

\* Every line of every fragment's text, in order.
RECURSIVE FragmentLines(_)
FragmentLines(segs) ==
    IF segs = <<>> THEN <<>>
    ELSE Split(TextOf(segs[1]).val, <<"\n">>) \o FragmentLines(Tail(segs))

TidyLine(line) == CollapseWS(Strip(line))

NotAnnotationLine(line) == line # <<>> /\ line[1] # "[" /\ line[1] # "("

C7_ParagraphsStartUppercase ==
    (fpc = "done" /\ fresult.some) =>
        \A k \in 1..Len(ParagraphsOf(fresult.val)) :
            /\ ParagraphsOf(fresult.val)[k][Len(ParagraphsOf(fresult.val)[k])] \in Terminators
            /\ ParagraphsOf(fresult.val)[k][1] \in Uppers

EndsTerminated(p) == p # <<>> /\ p[Len(p)] \in Terminators

\* The first character of the output paragraph is the upper-cased first
\* character of the grouped paragraph: an uppercase letter when that is a
\* letter, the same character otherwise.
FirstIsUpperOf(out, raw) ==
    /\ out[1] \notin Lowers
    /\ raw[1] \in Lowers \cup Uppers => out[1] \in Uppers
    /\ raw[1] \notin Lowers => out[1] = raw[1]

\* C7 (amended): every paragraph of the output ends in '.', '!' or '?', and
\* its first character is the upper-cased first character of the paragraph as
\* grouped: an uppercase letter only when the paragraph starts with a letter.
C7_ParagraphsTerminatedAndCapitalised ==
    (fpc = "done" /\ fresult.some) =>
        /\ Len(ParagraphsOf(fresult.val)) = Len(KeptParagraphs(paragraphs))
        /\ \A k \in 1..Len(ParagraphsOf(fresult.val)) :
            /\ EndsTerminated(ParagraphsOf(fresult.val)[k])
            /\ FirstIsUpperOf(ParagraphsOf(fresult.val)[k], KeptParagraphs(paragraphs)[k])

\* An output of two paragraphs, the first grouped with a lowercase first
\* letter, the second starting with a digit and given its period.
C7_Witness ==
    /\ fpc = "done" /\ fresult.some
    /\ Len(paragraphs) = 2
    /\ paragraphs[1][1] \in Lowers
    /\ paragraphs[2][1] \in Digits
    /\ paragraphs[2][Len(paragraphs[2])] \notin Terminators
    /\ Len(ParagraphsOf(fresult.val)) = 2

\* C8: format_transcript never raises, whatever the shape of the fragments (a
\* missing or unusable text counts as the empty string), and an empty
\* sequence yields the empty string.
C8_NeverRaises ==
    /\ fpc # "raised"
    /\ (fpc = "done" /\ segments = <<>>) => fresult = Some(<<>>)

\* The grouping loop has just handled a marker sentence that was not the
\* first sentence of the paragraph being built.
MarkerMetParagraph ==
    fpc = "group" /\ flog.before # <<>> /\ IsMarker(flog.sentence)

\* The sentences before the marker sentence were closed as a paragraph and
\* the marker sentence starts the new one.
MarkerMoved ==
    /\ current_paragraph = <<flog.sentence>>
    /\ paragraphs # <<>>
    /\ paragraphs[Len(paragraphs)] = JoinSpace(flog.before)

\* The marker sentence was closed into the paragraph it was appended to.
MarkerKept ==
    /\ current_paragraph = <<>>
    /\ paragraphs # <<>>
    /\ paragraphs[Len(paragraphs)] = JoinSpace(Append(flog.before, flog.sentence))

\* C9 (as stated): whenever a sentence that is not the first of the paragraph
\* being built begins with a discourse marker, the sentences before it are
\* closed as a paragraph and the marker sentence starts a new paragraph.
C9_MarkerAlwaysStartsParagraph ==
    MarkerMetParagraph => MarkerMoved

\* C9 (amended): the marker rule comes after the size rules. A marker
\* sentence that is the second or third sentence of the paragraph, the
\* paragraph with it being at most 500 characters, closes the sentences
\* before it and starts a new paragraph; one that is the fourth sentence, or
\* brings the paragraph over 500 characters, is closed into that paragraph.
C9_MarkerAfterSizeRules ==
    MarkerMetParagraph =>
        IF \/ Len(flog.before) + 1 >= MaxSentences
           \/ Len(JoinSpace(Append(flog.before, flog.sentence))) > MaxParagraphLen
        THEN MarkerKept
        ELSE MarkerMoved

\* A marker sentence arrived third and was moved to a new paragraph.
C9_Witness ==
    /\ MarkerMetParagraph /\ MarkerMoved
    /\ Len(flog.before) = 2

-----------------------------------------------------------------------------
(* ChapterService: timestamps *)

DigitSeq == <<"0", "1", "2", "3", "4", "5", "6", "7", "8", "9">>

IsDigit(c) == c \in Digits

DigitVal(c) == (CHOOSE i \in 1..10 : DigitSeq[i] = c) - 1

\* The number written by a non-empty sequence of digits.
RECURSIVE NumVal(_)
NumVal(ds) ==
    IF Len(ds) = 0 THEN 0
    ELSE 10 * NumVal(SubSeq(ds, 1, Len(ds) - 1)) + DigitVal(ds[Len(ds)])

\* The decimal digits of a natural number.
RECURSIVE DigitsOf(_)
DigitsOf(n) ==
    IF n < 10 THEN <<DigitSeq[n + 1]>>
    ELSE Append(DigitsOf(n \div 10), DigitSeq[(n % 10) + 1])

\* f"{n:d}"
TwoDigitsUnpadded(n) == DigitsOf(n)

\* f"{n:02d}"
TwoDigits(n) == IF n < 10 THEN <<"0">> \o DigitsOf(n) ELSE DigitsOf(n)

\* int(part) for a string: surrounding whitespace and one sign are allowed,
\* the rest must be digits, with single underscores allowed between digits;
\* anything else is a ValueError (None here).
Unsigned(part) ==
    IF part # <<>> /\ part[1] \in {"+", "-"} THEN Tail(part) ELSE part

AllDigits(ds) == ds # <<>> /\ \A i \in 1..Len(ds) : IsDigit(ds[i])

DigitGroups(ds) ==
    /\ ds # <<>> /\ IsDigit(ds[1]) /\ IsDigit(ds[Len(ds)])
    /\ \A i \in 1..Len(ds) : IsDigit(ds[i]) \/ (ds[i] = "_" /\ IsDigit(ds[i + 1]))

SignOf(part) == IF part # <<>> /\ part[1] = "-" THEN -1 ELSE 1

ParseStripped(part) ==
    IF DigitGroups(Unsigned(part))
    THEN Some(SignOf(part) * NumVal(SelectSeq(Unsigned(part), IsDigit)))
    ELSE None

ParseInt(part) == ParseStripped(Strip(part))

SecondsPerMinute == 60
SecondsPerHour == 3600

\* SecondsOfParts taking whatever follows the third part as absent.
SecondsOfPartsAnyArity(parts) ==
    IF Len(parts) < 2 THEN None
    ELSE IF \E k \in 1..Len(parts) : ~ParseInt(parts[k]).some THEN None
    ELSE IF Len(parts) = 2
    THEN Some(ParseInt(parts[1]).val * SecondsPerMinute + ParseInt(parts[2]).val)
    ELSE Some(ParseInt(parts[1]).val * SecondsPerHour
              + ParseInt(parts[2]).val * SecondsPerMinute + ParseInt(parts[3]).val)

\* Lines 156-163 once the parts are split.
SecondsOfParts(parts) ==
    IF Len(parts) \notin {2, 3} THEN None
    ELSE IF \E k \in 1..Len(parts) : ~ParseInt(parts[k]).some THEN None
    ELSE IF Len(parts) = 2
    THEN Some(ParseInt(parts[1]).val * SecondsPerMinute + ParseInt(parts[2]).val)
    ELSE Some(ParseInt(parts[1]).val * SecondsPerHour
              + ParseInt(parts[2]).val * SecondsPerMinute + ParseInt(parts[3]).val)

\* _parse_timestamp
ParseTimestamp(timestamp_str) == SecondsOfParts(Split(timestamp_str, <<":">>))

\* _format_timestamp without the hours branch.
FormatTimestampNoHours(seconds) ==
    TwoDigits((seconds % SecondsPerHour) \div SecondsPerMinute) \o <<":">>
        \o TwoDigits(seconds % SecondsPerMinute)

\* _format_timestamp
FormatTimestamp(seconds) ==
    IF seconds \div SecondsPerHour > 0
    THEN TwoDigits(seconds \div SecondsPerHour) \o <<":">>
         \o TwoDigits((seconds % SecondsPerHour) \div SecondsPerMinute) \o <<":">>
         \o TwoDigits(seconds % SecondsPerMinute)
    ELSE TwoDigits((seconds % SecondsPerHour) \div SecondsPerMinute) \o <<":">>
         \o TwoDigits(seconds % SecondsPerMinute)

-----------------------------------------------------------------------------
(* ChapterService._parse_chapters_from_text: the three patterns *)

EnDash == "<U+2013>"
EmDash == "<U+2014>"

\* The character at index i, or "" past the end.
At(s, i) == IF i >= 1 /\ i <= Len(s) THEN s[i] ELSE ""

\* \d{1,2}:\d{2} at index i; the index after it, 0 when there is none.
ShortStampEnd(s, i) ==
    IF IsDigit(At(s, i)) /\ At(s, i + 1) = ":" /\ IsDigit(At(s, i + 2)) /\ IsDigit(At(s, i + 3))
    THEN i + 4
    ELSE IF IsDigit(At(s, i)) /\ IsDigit(At(s, i + 1)) /\ At(s, i + 2) = ":"
            /\ IsDigit(At(s, i + 3)) /\ IsDigit(At(s, i + 4))
    THEN i + 5
    ELSE 0

\* (?::\d{2}) at index e
HasSeconds(s, e) == At(s, e) = ":" /\ IsDigit(At(s, e + 1)) /\ IsDigit(At(s, e + 2))

\* The ends group 1 may have, in the order the matcher tries them: with the
\* optional seconds first.
StampEnds(s, i) ==
    IF ShortStampEnd(s, i) = 0 THEN <<>>
    ELSE IF HasSeconds(s, ShortStampEnd(s, i))
    THEN <<ShortStampEnd(s, i) + 3, ShortStampEnd(s, i)>>
    ELSE <<ShortStampEnd(s, i)>>

\* The index after the whitespace run that starts at index i.
AfterWs(s, i) ==
    IF \A j \in i..Len(s) : s[j] \in WS THEN Len(s) + 1
    ELSE CHOOSE j \in i..Len(s) : s[j] \notin WS /\ \A k \in i..(j - 1) : s[k] \in WS

\* The three patterns differ in what stands between group 1 and group 2:
\* \s*[-<en><em>]\s* , \s+ , \s*[:\-<en><em>]\s*
chapter_patterns ==
    <<[sep |-> {"-", EnDash, EmDash}], [sep |-> {}], [sep |-> {":", "-", EnDash, EmDash}]>>

\* Where the whitespace before group 2 starts and the least index group 2 may
\* start at, for group 1 ending before index e; from = 0 when the separator
\* does not match.
GapOf(pat, s, e) ==
    IF pat.sep = {} THEN [from |-> e, lo |-> e + 1]
    ELSE IF At(s, AfterWs(s, e)) \in pat.sep
    THEN [from |-> AfterWs(s, e) + 1, lo |-> AfterWs(s, e) + 1]
    ELSE [from |-> 0, lo |-> 0]

\* Group 2 starts after the longest part of the whitespace run that leaves a
\* character other than a newline for '.+?'; 0 when there is none.
TitleStartIn(s, lo, hi) ==
    LET ok == {t \in lo..hi : t <= Len(s) /\ s[t] # "\n"}
    IN  IF ok = {} THEN 0 ELSE CHOOSE t \in ok : \A u \in ok : u <= t

TitleStart(s, gap) ==
    IF gap.from = 0 THEN 0 ELSE TitleStartIn(s, gap.lo, AfterWs(s, gap.from))

\* (?=\n|\d{1,2}:\d{2}|$) under re.MULTILINE
Lookahead(s, i) == i = Len(s) + 1 \/ At(s, i) = "\n" \/ ShortStampEnd(s, i) # 0

\* '.+?' from index t: the index after the shortest non-empty title.
TitleEnd(s, t) == CHOOSE j \in (t + 1)..(Len(s) + 1) :
                      Lookahead(s, j) /\ \A k \in (t + 1)..(j - 1) : ~Lookahead(s, k)

NoMatch == [found |-> FALSE, stamp |-> <<>>, title |-> <<>>, end |-> 0]

\* The match with group 1 = s[i..e-1], if the rest of the pattern matches.
MatchFromTitle(s, i, e, t) ==
    IF t = 0 THEN NoMatch
    ELSE [found |-> TRUE, stamp |-> SubSeq(s, i, e - 1),
          title |-> SubSeq(s, t, TitleEnd(s, t) - 1), end |-> TitleEnd(s, t)]

MatchWithStamp(pat, s, i, e) == MatchFromTitle(s, i, e, TitleStart(s, GapOf(pat, s, e)))

\* The match of the pattern that starts at index i.
RECURSIVE FirstFound(_, _, _, _)
FirstFound(pat, s, i, ends) ==
    IF ends = <<>> THEN NoMatch
    ELSE IF MatchWithStamp(pat, s, i, ends[1]).found THEN MatchWithStamp(pat, s, i, ends[1])
    ELSE FirstFound(pat, s, i, Tail(ends))

ChapterMatchAt(pat, s, i) == FirstFound(pat, s, i, StampEnds(s, i))

\* re.findall(pattern, text, re.MULTILINE | re.IGNORECASE) from index pos.
RECURSIVE FindAllFrom(_, _, _)
FindAllFrom(pat, s, pos) ==
    LET starts == {i \in pos..Len(s) : ChapterMatchAt(pat, s, i).found}
    IN  IF starts = {} THEN <<>>
        ELSE <<ChapterMatchAt(pat, s, CHOOSE i \in starts : \A j \in starts : i <= j)>>
             \o FindAllFrom(pat, s,
                    ChapterMatchAt(pat, s, CHOOSE i \in starts : \A j \in starts : i <= j).end)

FindAll(pat, s) == FindAllFrom(pat, s, 1)

-----------------------------------------------------------------------------
(* ChapterService: chapters from the description and from the metadata *)

\* ChapterData
Chapter(title, start_time, end_time, timestamp) ==
    [title |-> title, start_time |-> start_time, end_time |-> end_time,
     timestamp |-> timestamp]

Controls == {"\n", "\r", "\t"}

\* re.sub(r'[\n\r\t]+', ' ', title)
ReplaceControls(s) ==
    Pick([i \in 1..Len(s) |-> IF s[i] \in Controls THEN " " ELSE s[i]],
         SelectSeq(Indices(Len(s)),
                   LAMBDA i : ~(s[i] \in Controls /\ i > 1 /\ s[i - 1] \in Controls)))

\* Lines 125-130: the cleaned title.
CleanTitle(title) == Strip(CollapseWS(ReplaceControls(Strip(title))))

\* Lines 68-69 and 134-135 left out: the previous chapter is never closed.
ClosePreviousNever(chs, start_time) == chs

\* Lines 68-69 and 134-135: the previous chapter gets its end when it has none.
ClosePrevious(chs, start_time) ==
    IF chs # <<>> /\ ~chs[Len(chs)].end_time.some
    THEN [chs EXCEPT ![Len(chs)].end_time = Some(start_time)]
    ELSE chs

\* Line 132 without the test on the title: a match with an empty cleaned
\* title is kept.
WithMatchKeepEmpty(chs, stamp, start_time, title) ==
    IF start_time.some
    THEN Append(ClosePrevious(chs, start_time.val),
                Chapter(title, start_time.val, None, stamp))
    ELSE chs

\* Lines 132-143 for one match, its timestamp parsed and its title cleaned.
WithMatch(chs, stamp, start_time, title) ==
    IF start_time.some /\ title # <<>>
    THEN Append(ClosePrevious(chs, start_time.val),
                Chapter(title, start_time.val, None, stamp))
    ELSE chs

\* Lines 123-143: the matches of one pattern, in order.
RECURSIVE WithMatches(_, _)
WithMatches(chs, matches) ==
    IF matches = <<>> THEN chs
    ELSE WithMatches(WithMatch(chs, matches[1].stamp,
                               ParseTimestamp(Strip(matches[1].stamp)),
                               CleanTitle(matches[1].title)),
                     Tail(matches))

\* A chapter as the provider gives it: start_time and end_time are None or
\* Some(seconds); title is None when the key is absent.
ProviderChapter(start_time, end_time, title) ==
    [start_time |-> start_time, end_time |-> end_time, title |-> title]

\* Line 64 raises TypeError on a start_time of None.
ProviderChapterRaises(chapter) == ~chapter.start_time.some

\* Line 65: a missing, null or zero end_time gives None.
EndTimeOf(chapter) ==
    IF chapter.end_time.some /\ chapter.end_time.val # 0 THEN chapter.end_time ELSE None

\* Line 72 with the enumerate index itself: 'Chapter {i}', 0-based.
TitleOfZeroBased(chapter, n) ==
    IF chapter.title.some THEN chapter.title.val
    ELSE <<"C", "h", "a", "p", "t", "e", "r", " ">> \o DigitsOf(n - 1)

\* Line 72: the title, or 'Chapter N'.
TitleOf(chapter, n) ==
    IF chapter.title.some THEN chapter.title.val
    ELSE <<"C", "h", "a", "p", "t", "e", "r", " ">> \o DigitsOf(n)

\* Lines 64-77 for the chapter at position n (1-based).
WithProviderChapter(chs, chapter, n) ==
    Append(IF n > 1 THEN ClosePrevious(chs, chapter.start_time.val) ELSE chs,
           Chapter(TitleOf(chapter, n), chapter.start_time.val, EndTimeOf(chapter),
                   FormatTimestamp(chapter.start_time.val)))

-----------------------------------------------------------------------------
(* What the provider returns for a video *)

Intro == <<"I", "n", "t", "r", "o">>

ProviderChapterShapes ==
    {ProviderChapter(Some(s), e, Some(Intro)) : s \in {0, 30, 90}, e \in {None, Some(120)}}
    \cup {ProviderChapter(Some(30), None, None),
          ProviderChapter(Some(90), Some(0), Some(Intro)),
          ProviderChapter(None, None, Some(Intro))}

MaxChapters == 3

DescriptionLines ==
    {<<"0", ":", "0", "0", " ", "-", " ", "I", "n", "t", "r", "o">>,
     <<"1", ":", "3", "0", " ", "-", " ", "S", "e", "t", "u", "p">>,
     <<"1", ":", "0", "0", ":", "0", "0", " ", "<U+2013>", " ", "D", "e", "e", "p", " ", "d", "i", "v", "e">>,
     <<"0", ":", "4", "5", " ", "W", "a", "r", "m", "u", "p">>,
     <<"2", ":", "1", "0", ":", " ", "C", "o", "l", "o", "n">>,
     <<"T", "h", "a", "n", "k", "s", " ", "f", "o", "r", " ", "w", "a", "t", "c", "h", "i", "n", "g">>,
     <<"3", ":", "1", "5", " ", "-", " ", " ", "\t">>,
     <<"4", ":", "0", "0", " ", "-", " ", "M", "i", "d", " ", "4", ":", "3", "0", "<U+2014>", "E", "n", "d">>}

MaxLines == 2

Descriptions == {JoinWith(ls, <<"\n">>) : ls \in SeqsUpTo(DescriptionLines, MaxLines)}

TwoLineDescription == <<"0", ":", "0", "0", " ", "-", " ", "I", "n", "t", "r", "o", "\n", "1", ":", "3", "0", " ", "-", " ", "S", "e", "t", "u", "p">>

\* info as extract_info returns it: chapters is "absent" (no key), "null"
\* (None) or "list"; description is None when the key is absent; raises says
\* whether the first and the second extract_info call raise.
VideoInfo(has, list, description, raises) ==
    [has |-> has, list |-> list, description |-> description, raises |-> raises]

NoRaise == [first |-> FALSE, second |-> FALSE]

VideoInfos ==
    {VideoInfo("list", cs, Some(TwoLineDescription), NoRaise) :
        cs \in SeqsUpTo(ProviderChapterShapes, MaxChapters) \ {<<>>}}
    \cup {VideoInfo("absent", <<>>, Some(d), NoRaise) : d \in Descriptions}
    \cup {VideoInfo(h, <<>>, d, r) :
            h \in {"absent", "null", "list"},
            d \in {None, Some(TwoLineDescription)},
            r \in [first : BOOLEAN, second : BOOLEAN]}

-----------------------------------------------------------------------------
(* ChapterService.get_chapters as a state machine (SpecChapters) *)

FmtOff ==
    /\ fpc = "off" /\ segments = <<>> /\ sentences = <<>> /\ sidx = 0
    /\ current_paragraph = <<>> /\ paragraphs = <<>> /\ fresult = None
    /\ webresult = None /\ flog = NoIteration

NoInfo == VideoInfo("absent", <<>>, None, NoRaise)

InitChapters ==
    /\ ReqIdle /\ FmtOff /\ RetIdle /\ BatchIdle /\ WinIdle /\ ConvIdle
    /\ cpc = "idle" /\ info = NoInfo /\ chapters = <<>> /\ cidx = 0
    /\ cstrategy = "none"

\* Lines 34-36 and 51-61: get_chapters enters the metadata strategy and
\* extract_info answers.
GetChapters(i) ==
    /\ cpc = "idle"
    /\ info' = i
    /\ cpc' = "metadata" /\ cidx' = 1 /\ chapters' = <<>> /\ cstrategy' = "none"

\* The metadata strategy cannot go on: extract_info raised, or 'chapters' is
\* null and enumerate raises; the except clause of line 81 returns [].
MetadataFails ==
    info.raises.first \/ info.has = "null"

\* Lines 63-77: one iteration over chapters_data; an exception leaves the
\* strategy with [] (lines 81-83).
MetadataStep ==
    /\ cpc = "metadata" /\ ~MetadataFails /\ cidx <= Len(info.list)
    /\ IF ProviderChapterRaises(info.list[cidx])
       THEN chapters' = <<>> /\ cpc' = "description" /\ cidx' = 0
       ELSE /\ chapters' = WithProviderChapter(chapters, info.list[cidx], cidx)
            /\ cidx' = cidx + 1
            /\ cpc' = cpc
    /\ UNCHANGED <<info, cstrategy>>

\* Line 38 without its test: the description strategy is entered whatever
\* the metadata strategy returned.
MetadataEndAlwaysDescription ==
    /\ cpc = "metadata" /\ (MetadataFails \/ cidx > Len(info.list))
    /\ cpc' = "description" /\ chapters' = <<>> /\ cidx' = 0 /\ UNCHANGED cstrategy
    /\ UNCHANGED info

\* Lines 79 and 38-42: the metadata strategy returns; a non-empty list is
\* get_chapters' result, otherwise the description strategy is tried.
MetadataEnd ==
    /\ cpc = "metadata" /\ (MetadataFails \/ cidx > Len(info.list))
    /\ IF ~MetadataFails /\ chapters # <<>>
       THEN cpc' = "done" /\ cstrategy' = "metadata" /\ UNCHANGED <<chapters, cidx>>
       ELSE cpc' = "description" /\ chapters' = <<>> /\ cidx' = 0 /\ UNCHANGED cstrategy
    /\ UNCHANGED info

\* Lines 87-101: the second extract_info and the description; no description
\* (or an exception) ends get_chapters with [].
DescriptionFetch ==
    /\ cpc = "description"
    /\ IF info.raises.second \/ ~info.description.some \/ info.description.val = <<>>
       THEN cpc' = "done" /\ cidx' = 0
       ELSE cpc' = "patterns" /\ cidx' = 1
    /\ UNCHANGED <<info, chapters, cstrategy>>

\* Lines 119-147: one pattern of _parse_chapters_from_text; the loop ends
\* with the first pattern that leaves chapters non-empty.
PatternStep ==
    /\ cpc = "patterns" /\ cidx <= Len(chapter_patterns)
    /\ chapters' = WithMatches(chapters, FindAll(chapter_patterns[cidx], info.description.val))
    /\ IF chapters' # <<>>
       THEN cpc' = "done" /\ cstrategy' = "description" /\ cidx' = cidx
       ELSE cpc' = cpc /\ cidx' = cidx + 1 /\ UNCHANGED cstrategy
    /\ UNCHANGED info

\* Line 149: no pattern gave a chapter.
PatternsEnd ==
    /\ cpc = "patterns" /\ cidx > Len(chapter_patterns)
    /\ cpc' = "done"
    /\ UNCHANGED <<info, chapters, cidx, cstrategy>>

\* The caller has the list; the service is idle again.
ChaptersReturn ==
    /\ cpc = "done"
    /\ cpc' = "idle" /\ info' = NoInfo /\ chapters' = <<>> /\ cidx' = 0
    /\ cstrategy' = "none"

NextChapters ==
    \/ \E i \in VideoInfos : GetChapters(i) /\ UNCHANGED <<reqVars, fmtVars, retVars, batchVars, winVars, conv>>
    \/ MetadataStep /\ UNCHANGED <<reqVars, fmtVars, retVars, batchVars, winVars, conv>>
    \/ MetadataEnd /\ UNCHANGED <<reqVars, fmtVars, retVars, batchVars, winVars, conv>>
    \/ DescriptionFetch /\ UNCHANGED <<reqVars, fmtVars, retVars, batchVars, winVars, conv>>
    \/ PatternStep /\ UNCHANGED <<reqVars, fmtVars, retVars, batchVars, winVars, conv>>
    \/ PatternsEnd /\ UNCHANGED <<reqVars, fmtVars, retVars, batchVars, winVars, conv>>
    \/ ChaptersReturn /\ UNCHANGED <<reqVars, fmtVars, retVars, batchVars, winVars, conv>>

SpecChapters == InitChapters /\ [][NextChapters]_vars

-----------------------------------------------------------------------------
(* Claims about the chapter lists (SpecChapters) *)

\* C10: the chapter list get_chapters returns, from either strategy and for
\* any provider metadata or description text, is in non-decreasing
\* start_seconds order.
C10_ChaptersInStartOrder ==
    cpc = "done" =>
        \A k \in 1..(Len(chapters) - 1) :
            chapters[k].start_time <= chapters[k + 1].start_time

\* C11 (as stated): in every returned list, each chapter except the last has
\* end_seconds equal to the start_seconds of the chapter that follows it.
C11_EndIsNextStart ==
    cpc = "done" =>
        \A k \in 1..(Len(chapters) - 1) :
            chapters[k].end_time = Some(chapters[k + 1].start_time)

\* The provider gave chapter k of the metadata list an end_time that counts
\* (not null, not zero).
ProviderGaveEnd(k) == info.list[k].end_time.some /\ info.list[k].end_time.val # 0

\* C11 (amended): each chapter except the last has a non-null end_seconds; it
\* equals the start_seconds of the following chapter for every chapter of the
\* description strategy and for every metadata chapter the provider gave no
\* (or a zero) end_time, while a provider-supplied end_time is kept even when
\* it differs from the next start. Only the last chapter may have null.
C11_EndResolved ==
    cpc = "done" =>
        \A k \in 1..(Len(chapters) - 1) :
            /\ chapters[k].end_time.some
            /\ IF cstrategy = "metadata" /\ ProviderGaveEnd(k)
               THEN chapters[k].end_time = info.list[k].end_time
               ELSE chapters[k].end_time = Some(chapters[k + 1].start_time)

\* Three metadata chapters: the first keeps the provider's end, which is not
\* the second's start; the second is closed by the third's start.
C11_Witness ==
    /\ cpc = "done" /\ cstrategy = "metadata" /\ Len(chapters) = 3
    /\ ProviderGaveEnd(1) /\ ~ProviderGaveEnd(2)
    /\ chapters[1].end_time # Some(chapters[2].start_time)
    /\ chapters[2].end_time = Some(chapters[3].start_time)

ChapterWord == <<"C", "h", "a", "p", "t", "e", "r", " ">>

\* The end_seconds the metadata strategy owes chapter k of a list of n: the
\* provider's own end_time when it gave one, else the next chapter's
\* start_time, else null.
OwedEnd(k, n) ==
    IF ProviderGaveEnd(k) THEN info.list[k].end_time
    ELSE IF k < n THEN info.list[k + 1].start_time
    ELSE None

\* C12: the metadata strategy returns one chapter per provider chapter, in
\* order; a chapter without an end_time of its own that is followed by another
\* gets that chapter's start_time as end_seconds, a provider-supplied end_time
\* is kept, and a chapter without a title is named 'Chapter N', N its 1-based
\* position.
C12_MetadataBackfill ==
    (cpc = "done" /\ cstrategy = "metadata") =>
        /\ Len(chapters) = Len(info.list)
        /\ \A k \in 1..Len(chapters) :
            /\ chapters[k].start_time = info.list[k].start_time.val
            /\ chapters[k].end_time = OwedEnd(k, Len(chapters))
            /\ chapters[k].title = IF info.list[k].title.some THEN info.list[k].title.val
                                   ELSE ChapterWord \o DigitsOf(k)

\* Starts 0, 30, 90 with only the last having an end (120) came out with ends
\* 30, 90, 120; the second chapter had no title.
C12_Witness ==
    /\ cpc = "done" /\ cstrategy = "metadata" /\ Len(chapters) = 3
    /\ <<chapters[1].start_time, chapters[2].start_time, chapters[3].start_time>> = <<0, 30, 90>>
    /\ <<info.list[1].end_time, info.list[2].end_time, info.list[3].end_time>>
           = <<None, None, Some(120)>>
    /\ <<chapters[1].end_time, chapters[2].end_time, chapters[3].end_time>>
           = <<Some(30), Some(90), Some(120)>>
    /\ ~info.list[2].title.some
    /\ chapters[2].title = <<"C", "h", "a", "p", "t", "e", "r", " ", "2">>

-----------------------------------------------------------------------------
(* Claims about the description strategy (SpecChapters) *)

\* get_chapters ended after _parse_chapters_from_text ran on the description.
ParsedDescription ==
    /\ cpc = "done" /\ cstrategy # "metadata"
    /\ ~info.raises.second /\ info.description.some /\ info.description.val # <<>>

LinesOf(d) == Split(d, <<"\n">>)

\* A line '<MM:SS or HH:MM:SS> - <title>': where its timestamp ends, the
\* timestamp and the title.
StampEndOf(line) == IF StampEnds(line, 1) = <<>> THEN 0 ELSE StampEnds(line, 1)[1]
LineStamp(line) == SubSeq(line, 1, StampEndOf(line) - 1)
LineTitle(line) == SubSeq(line, StampEndOf(line) + 3, Len(line))

IsChapterLine(line) ==
    /\ StampEndOf(line) # 0
    /\ At(line, StampEndOf(line)) = " "
    /\ At(line, StampEndOf(line) + 1) \in chapter_patterns[1].sep
    /\ At(line, StampEndOf(line) + 2) = " "
    /\ CleanTitle(LineTitle(line)) # <<>>

HasStampInside(title) == \E i \in 1..Len(title) : ShortStampEnd(title, i) # 0

\* The chapter owed to line k of the lines.
ChapterOfLine(lines, k) ==
    Chapter(CleanTitle(LineTitle(lines[k])),
            ParseTimestamp(LineStamp(lines[k])).val,
            IF k < Len(lines) THEN ParseTimestamp(LineStamp(lines[k + 1])) ELSE None,
            LineStamp(lines[k]))

ChaptersOfLines(lines) == [k \in 1..Len(lines) |-> ChapterOfLine(lines, k)]

\* C13: a description of N lines '<timestamp> - <title>' with
\* non-empty titles gives exactly N chapters in line order, each with the
\* cleaned title, the parsed start, and the next entry's start as its end
\* (null for the last).
C13_LinesGiveChapters ==
    (ParsedDescription
        /\ \A k \in 1..Len(LinesOf(info.description.val)) :
               IsChapterLine(LinesOf(info.description.val)[k]))
    => chapters = ChaptersOfLines(LinesOf(info.description.val))

\* The same holds once the titles hold no further MM:SS timestamp: the
\* lookahead of the patterns ends a title where a timestamp begins.
PlainLinesGiveChapters ==
    (ParsedDescription
        /\ \A k \in 1..Len(LinesOf(info.description.val)) :
               /\ IsChapterLine(LinesOf(info.description.val)[k])
               /\ ~HasStampInside(LineTitle(LinesOf(info.description.val)[k])))
    => chapters = ChaptersOfLines(LinesOf(info.description.val))

\* "0:00 - Intro\n1:30 - Setup" gave (Intro, 0, 90) and (Setup, 90, null).
C13_Witness ==
    /\ ParsedDescription
    /\ info.description.val = TwoLineDescription
    /\ chapters = <<Chapter(<<"I", "n", "t", "r", "o">>, 0, Some(90), <<"0", ":", "0", "0">>),
                    Chapter(<<"S", "e", "t", "u", "p">>, 90, None, <<"1", ":", "3", "0">>)>>

\* _parse_chapters_from_text is at work on the description, or has returned.
InPatterns == cpc = "patterns" \/ (ParsedDescription /\ cidx >= 1)

\* The patterns the loop has gone past.
PatternsPassed == 1..(cidx - 1)

MatchesOf(p) == FindAll(chapter_patterns[p], info.description.val)

\* Line 132: the match is not skipped.
MatchKept(m) == ParseTimestamp(Strip(m.stamp)).some /\ CleanTitle(m.title) # <<>>

KeptMatches(p) == SelectSeq(MatchesOf(p), MatchKept)

\* title, start and timestamp of the chapters, against the matches they are
\* owed to.
ChaptersAre(kept) ==
    /\ Len(chapters) = Len(kept)
    /\ \A k \in 1..Len(kept) :
        /\ chapters[k].title = CleanTitle(kept[k].title)
        /\ chapters[k].start_time = ParseTimestamp(Strip(kept[k].stamp)).val
        /\ chapters[k].timestamp = kept[k].stamp

\* C14 (as stated): the first pattern, in list order, that yields any match
\* is the only one used: no pattern before the current one has matched, and
\* the chapters returned are the kept matches of the pattern the loop stopped
\* at.
C14_FirstMatchingPattern ==
    InPatterns =>
        /\ \A p \in PatternsPassed : MatchesOf(p) = <<>>
        /\ (cpc = "done" /\ cidx <= Len(chapter_patterns)) => ChaptersAre(KeptMatches(cidx))
        /\ (cpc = "done" /\ cidx > Len(chapter_patterns)) => chapters = <<>>

\* C14 (amended): the first pattern, in list order, that yields a chapter is
\* the only one whose matches are returned: every pattern before it either
\* did not match or had all its matches skipped, and the chapters are the
\* kept matches of that one pattern, in order; matches with an unparsable
\* timestamp or an empty cleaned title are skipped.
C14_FirstYieldingPattern ==
    InPatterns =>
        /\ \A p \in PatternsPassed : KeptMatches(p) = <<>>
        /\ (cpc = "done" /\ cidx <= Len(chapter_patterns)) =>
               KeptMatches(cidx) # <<>> /\ ChaptersAre(KeptMatches(cidx))
        /\ (cpc = "done" /\ cidx > Len(chapter_patterns)) => chapters = <<>>

\* The first pattern matched but its only match had an empty cleaned title;
\* the chapters came from the second pattern.
C14_Witness ==
    /\ ParsedDescription /\ cidx = 2
    /\ MatchesOf(1) # <<>> /\ KeptMatches(1) = <<>>
    /\ chapters # <<>>

\* A match was skipped inside the pattern that gave the chapters.
SkippedInsidePattern ==
    /\ ParsedDescription /\ cidx = 1
    /\ chapters # <<>> /\ Len(chapters) < Len(MatchesOf(1))

-----------------------------------------------------------------------------
(* Claims about the order of the two strategies (SpecChapters) *)

\* Lines 63-77 over the whole provider list.
RECURSIVE MetadataFold(_, _, _)
MetadataFold(chs, list, k) ==
    IF k > Len(list) THEN chs
    ELSE MetadataFold(WithProviderChapter(chs, list[k], k), list, k + 1)

\* _extract_chapters_from_metadata: what the metadata strategy returns for i.
MetadataResult(i) ==
    IF i.raises.first \/ i.has = "null"
          \/ \E k \in 1..Len(i.list) : ProviderChapterRaises(i.list[k])
    THEN <<>>
    ELSE MetadataFold(<<>>, i.list, 1)

InDescription == cpc \in {"description", "patterns"}

\* What get_chapters is seen to do while it runs.
StrategiesInOrder ==
    /\ InDescription => MetadataResult(info) = <<>>
    /\ (cpc = "done" /\ MetadataResult(info) # <<>>) =>
           cstrategy = "metadata" /\ chapters = MetadataResult(info)
    /\ (cpc = "done" /\ MetadataResult(info) = <<>>) =>
           /\ cstrategy # "metadata"
           /\ chapters # <<>> => (ParsedDescription /\ ChaptersAre(KeptMatches(cidx)))

\* The steps get_chapters takes: from idle into the metadata strategy, and
\* into the description strategy only out of the metadata strategy.
StrategySteps ==
    /\ cpc = "idle" => cpc' \in {"idle", "metadata"}
    /\ (cpc' = "description" /\ cpc # "description") => cpc = "metadata"
    /\ (cpc' = "patterns") => InDescription
    /\ (cpc = "metadata" /\ cpc' = "done") => chapters' = MetadataResult(info)

\* C15: get_chapters tries the metadata strategy first and returns its result
\* whenever it is non-empty; the description strategy runs only when the
\* metadata strategy yielded no chapters, and the returned list is never a
\* mix of the two.
C15_MetadataFirst == [](StrategiesInOrder) /\ [][StrategySteps]_vars

\* The metadata strategy's chapters were returned although the description
\* held chapter lines as well.
C15_Witness ==
    /\ cpc = "done" /\ cstrategy = "metadata" /\ chapters # <<>>
    /\ chapters = MetadataResult(info)
    /\ info.description = Some(TwoLineDescription)

\* The description strategy gave the list after an empty metadata result.
DescriptionAfterEmptyMetadata ==
    /\ cpc = "done" /\ cstrategy = "description" /\ chapters # <<>>
    /\ info.has = "list" /\ MetadataResult(info) = <<>>

-----------------------------------------------------------------------------
(* The metadata fetch *)

\* What extract_info does for the metadata: "ok" returns a dict with title,
\* duration and uploader, "bare" a dict without these keys, "null" returns
\* None (the .get on it raises AttributeError inside the try), "raise" raises.
MetadataEnvs == {"ok", "bare", "null", "raise"}

MetadataFailed(m) == m \in {"null", "raise"}

AbsentKey == "<absent>"

MetadataDict(env, title, duration, uploader) ==
    [env |-> env, raised |-> FALSE, empty |-> FALSE,
     title |-> title, duration |-> duration, uploader |-> uploader]

\* TranscriptService._get_video_metadata
WebVideoMetadata(m) ==
    CASE m = "ok" -> MetadataDict(m, "Video title", 212, "Uploader")
      [] m = "bare" -> MetadataDict(m, "", 0, "")
      [] OTHER -> MetadataDict(m, "", 0, AbsentKey)

\* The except clause of get_video_metadata left out: the exception leaves
\* the function.
CliVideoMetadataUncaught(m) ==
    CASE m = "ok" -> MetadataDict(m, "Video title", 212, "Uploader")
      [] m = "bare" -> MetadataDict(m, "Untitled", 0, "Unknown")
      [] OTHER -> [MetadataDict(m, "", 0, AbsentKey) EXCEPT !.raised = TRUE]

\* YouTubeTranscriber.get_video_metadata
CliVideoMetadata(m) ==
    CASE m = "ok" -> MetadataDict(m, "Video title", 212, "Uploader")
      [] m = "bare" -> MetadataDict(m, "Untitled", 0, "Unknown")
      [] OTHER -> MetadataDict(m, "Unknown Title", 0, AbsentKey)

\* process_url line 262: metadata = {} without include_metadata.
SkippedMetadata == [NoMetadata EXCEPT !.env = "skipped"]

-----------------------------------------------------------------------------
(* The transcript retrieval: track selection and fetch *)

Langs == {"en", "de"}

MaxTracks == 2

\* The language codes of the tracks of one kind, in listing order.
LangSeqs == {q \in SeqsUpTo(Langs, MaxTracks) : \A i, j \in 1..Len(q) : q[i] = q[j] => i = j}

\* A TranscriptList: the manually created and the generated tracks.
TrackLists == [manual : LangSeqs, generated : LangSeqs]

Track(language_code, is_generated) ==
    [language_code |-> language_code, is_generated |-> is_generated]

HasLang(langs, code) == \E i \in 1..Len(langs) : langs[i] = code

\* youtube_transcript_api's TranscriptList: find_transcript looks among the
\* manually created tracks first and then among the generated ones; each
\* find_ method raises NoTranscriptFound (None here) when it finds nothing.
find_transcript(tl, code) ==
    IF HasLang(tl.manual, code) THEN Some(Track(code, FALSE))
    ELSE IF HasLang(tl.generated, code) THEN Some(Track(code, TRUE))
    ELSE None

find_manually_created_transcript(tl, code) ==
    IF HasLang(tl.manual, code) THEN Some(Track(code, FALSE)) ELSE None

find_generated_transcript(tl, code) ==
    IF HasLang(tl.generated, code) THEN Some(Track(code, TRUE)) ELSE None

\* `for t in transcript_list: transcript = t; break`: iteration yields the
\* manually created tracks, then the generated ones.
FirstAvailable(tl) ==
    IF tl.manual # <<>> THEN Some(Track(tl.manual[1], FALSE))
    ELSE IF tl.generated # <<>> THEN Some(Track(tl.generated[1], TRUE))
    ELSE None

\* The selectors of _extract_transcript / extract_transcript, outermost try
\* first.
selector_chain ==
    <<"find_transcript", "find_manually_created_transcript",
      "find_generated_transcript", "first_available">>

RunSelector(name, tl) ==
    CASE name = "find_transcript" -> find_transcript(tl, "en")
      [] name = "find_manually_created_transcript" -> find_manually_created_transcript(tl, "en")
      [] name = "find_generated_transcript" -> find_generated_transcript(tl, "en")
      [] OTHER -> FirstAvailable(tl)

\* The nested try/except from selector k on: the selectors evaluated, in
\* order, and the track the chain ends with.
RECURSIVE SelectFrom(_, _)
SelectFrom(tl, k) ==
    IF k > Len(selector_chain) THEN [log |-> <<>>, track |-> None]
    ELSE IF RunSelector(selector_chain[k], tl).some
    THEN [log |-> <<selector_chain[k]>>, track |-> RunSelector(selector_chain[k], tl)]
    ELSE [log |-> <<selector_chain[k]>> \o SelectFrom(tl, k + 1).log,
          track |-> SelectFrom(tl, k + 1).track]

\* The chain cut down to its last resort: the first available track.
SelectTrackFirstAvailable(tl) == SelectFrom(tl, Len(selector_chain))

\* transcript_service.py lines 66-85, youtube_transcriber.py lines 221-234.
SelectTrack(tl) == SelectFrom(tl, 1)

\* list: api.list(video_id) answers or raises; tracks: the list it answers
\* with; fetch: transcript.fetch() raises, or the text that comes out of the
\* formatting of its fragments is empty, or is text.
TranscriptEnvs == [list : {"ok", "raise"}, tracks : TrackLists, fetch : {"raise", "empty", "text"}]

Retrieval(env, calls_, log, track, failed, text) ==
    [env |-> env, calls |-> calls_, log |-> log, track |-> track,
     failed |-> failed, text |-> text]

\* _extract_transcript / extract_transcript: failed stands for the exception
\* the web service raises and for the None the CLI returns.
ExtractTranscript(env) ==
    IF env.list = "raise"
    THEN Retrieval(env, <<"list">>, <<>>, None, TRUE, "")
    ELSE IF ~SelectTrack(env.tracks).track.some
    THEN Retrieval(env, <<"list">>, SelectTrack(env.tracks).log, None, TRUE, "")
    ELSE IF env.fetch = "raise"
    THEN Retrieval(env, <<"list", "fetch">>, SelectTrack(env.tracks).log,
                   SelectTrack(env.tracks).track, TRUE, "")
    ELSE Retrieval(env, <<"list", "fetch">>, SelectTrack(env.tracks).log,
                   SelectTrack(env.tracks).track, FALSE,
                   IF env.fetch = "empty" THEN "" ELSE "text")

-----------------------------------------------------------------------------
(* ChapterService.get_chapters as a function of what extract_info answers *)

\* Lines 118-147: the patterns from pattern p on.
RECURSIVE ParseFrom(_, _)
ParseFrom(text, p) ==
    IF p > Len(chapter_patterns) THEN <<>>
    ELSE IF WithMatches(<<>>, FindAll(chapter_patterns[p], text)) # <<>>
    THEN WithMatches(<<>>, FindAll(chapter_patterns[p], text))
    ELSE ParseFrom(text, p + 1)

\* _parse_chapters_from_text
ParseChaptersFromText(text) == ParseFrom(text, 1)

\* _extract_chapters_from_description
DescriptionResult(i) ==
    IF i.raises.second \/ ~i.description.some \/ i.description.val = <<>> THEN <<>>
    ELSE ParseChaptersFromText(i.description.val)

\* get_chapters without the except clauses of lines 81-83 and 104-106: an
\* exception of a strategy leaves get_chapters.
GetChaptersUncaught(i) ==
    [raised |-> \/ i.raises.first \/ i.has = "null"
                \/ \E k \in 1..Len(i.list) : ProviderChapterRaises(i.list[k])
                \/ (MetadataResult(i) = <<>> /\ i.raises.second),
     list |-> IF MetadataResult(i) # <<>> THEN MetadataResult(i) ELSE DescriptionResult(i)]

\* get_chapters: each strategy turns its exceptions into [] (lines 81-83 and
\* 104-106), so nothing reaches the except clause of lines 44-46 and nothing
\* leaves get_chapters.
GetChaptersResult(i) ==
    [raised |-> FALSE,
     list |-> IF MetadataResult(i) # <<>> THEN MetadataResult(i) ELSE DescriptionResult(i)]

\* What extract_info answers to get_chapters for the video of a web request:
\* provider chapters, chapter lines in the description only, no chapter data
\* at all, a null 'chapters', a chapter without start_time, and a provider
\* that raises on both calls.
Raising == [first |-> TRUE, second |-> TRUE]

ChapterInfos ==
    {VideoInfo("list", <<ProviderChapter(Some(0), None, Some(Intro)),
                         ProviderChapter(Some(90), Some(120), None)>>, None, NoRaise),
     VideoInfo("absent", <<>>, Some(TwoLineDescription), NoRaise),
     VideoInfo("absent", <<>>, None, NoRaise),
     VideoInfo("list", <<>>, Some(<<"n", "o", "n", "e">>), NoRaise),
     VideoInfo("null", <<>>, None, NoRaise),
     VideoInfo("list", <<ProviderChapter(None, None, Some(Intro))>>, None, NoRaise),
     VideoInfo("absent", <<>>, Some(TwoLineDescription), Raising)}

\* extract_info raises whenever get_chapters calls it.
ProviderFails(i) == i.raises.first /\ i.raises.second

\* The video has no chapter data: no provider chapters, and no description or
\* one that none of the patterns matches.
NoChapterData(i) ==
    /\ i.has \in {"absent", "null"} \/ i.list = <<>>
    /\ \/ ~i.description.some
       \/ \A p \in 1..Len(chapter_patterns) :
              FindAll(chapter_patterns[p], i.description.val) = <<>>

-----------------------------------------------------------------------------
(* The web handler and process_url from the metadata fetch on *)

Respond(kind, status, error) ==
    [NoResponse EXCEPT !.kind = kind, !.status = status, !.error = error]

\* get_transcript of app/main.py lines 55-70: TranscriptService.get_transcript
\* wraps whatever it meets in Exception("Failed to extract transcript: ..."),
\* and the handler answers any exception with status 500.
WebFailure == Respond("error", 500, "Failed to extract transcript")

\* Lines 58-67: the chapters and the response.
WebRespond(md, tr, i) ==
    IF GetChaptersResult(i).raised THEN [WebFailure EXCEPT !.info = i]
    ELSE [Respond("ok", 200, "") EXCEPT
            !.title = md.title, !.duration = md.duration,
            !.transcript = tr.text, !.chapters = GetChaptersResult(i).list,
            !.info = i]

\* process_url lines 266-268: no transcript.
CliFailure == Respond("error", 1, "No transcript available")

\* Lines 273-286: the header of output_text (the Duration line only for a
\* non-zero duration).
OutputText(opt, md, tr) ==
    IF opt.include_metadata /\ ~md.empty
    THEN [Respond("ok", 0, "") EXCEPT
            !.header = TRUE, !.title = md.title, !.duration = md.duration,
            !.transcript = tr.text]
    ELSE [Respond("ok", 0, "") EXCEPT !.transcript = tr.text]

\* process_url with the test of line 266 left out.
CliRespondAlways(opt, md, tr, write) ==
    IF opt.output = "file"
    THEN IF write = "raise" THEN Respond("raised", 0, "OSError")
         ELSE [OutputText(opt, md, tr) EXCEPT !.written = TRUE]
    ELSE [OutputText(opt, md, tr) EXCEPT !.printed = TRUE]

\* process_url lines 265-311: False without a transcript; otherwise the text
\* is written to the file (open or write may raise: nothing catches it) or
\* printed, and True returned.
CliRespond(opt, md, tr, write) ==
    IF tr.failed \/ tr.text = "" THEN CliFailure
    ELSE IF opt.output = "file"
    THEN IF write = "raise" THEN Respond("raised", 0, "OSError")
         ELSE [OutputText(opt, md, tr) EXCEPT !.written = TRUE]
    ELSE [OutputText(opt, md, tr) EXCEPT !.printed = TRUE]

-----------------------------------------------------------------------------
(* One request with a valid identifier, stage by stage (SpecRetrieve) *)

BatchOff == BatchIdle

InitRetrieve ==
    /\ ReqIdle /\ FmtOff /\ ChapIdle /\ BatchOff /\ WinIdle /\ ConvIdle
    /\ rfront \in {"web", "cli"} /\ rpc = "idle" /\ roptions = NoOptions
    /\ metadata = NoMetadata /\ transcript_data = NoTranscript /\ response = NoResponse

WebOptions == [include_metadata |-> TRUE, output |-> "response"]

\* The identifier is there: the web handler is past line 55, process_url past
\* line 259.
StartRequest(opt) ==
    /\ rpc = "idle"
    /\ roptions' = IF rfront = "web" THEN WebOptions ELSE opt
    /\ rpc' = "metadata"
    /\ metadata' = NoMetadata /\ transcript_data' = NoTranscript /\ response' = NoResponse
    /\ UNCHANGED rfront

\* TranscriptService.get_transcript line 38, process_url line 262: an
\* exception of the metadata fetch, were there one, would end the request.
FetchMetadata(m) ==
    /\ rpc = "metadata"
    /\ metadata' = IF rfront = "web" THEN WebVideoMetadata(m)
                   ELSE IF roptions.include_metadata THEN CliVideoMetadata(m)
                   ELSE SkippedMetadata
    /\ IF metadata'.raised
       THEN /\ rpc' = "done"
            /\ response' = IF rfront = "web" THEN WebFailure
                           ELSE Respond("raised", 0, "metadata")
       ELSE rpc' = "transcript" /\ UNCHANGED response
    /\ UNCHANGED <<rfront, roptions, transcript_data>>

\* TranscriptService.get_transcript line 41 and the handler's except clause;
\* process_url lines 265-268.
RetrieveTranscript(env) ==
    /\ rpc = "transcript"
    /\ transcript_data' = ExtractTranscript(env)
    /\ IF rfront = "web"
       THEN IF transcript_data'.failed
            THEN rpc' = "done" /\ response' = WebFailure
            ELSE rpc' = "chapters" /\ UNCHANGED response
       ELSE IF CliRespond(roptions, metadata, transcript_data', "ok").kind = "error"
            THEN rpc' = "done" /\ response' = CliFailure
            ELSE rpc' = "output" /\ UNCHANGED response
    /\ UNCHANGED <<rfront, roptions, metadata>>

\* The handler's lines 58-67.
DeriveChapters(i) ==
    /\ rpc = "chapters"
    /\ response' = WebRespond(metadata, transcript_data, i)
    /\ rpc' = "done"
    /\ UNCHANGED <<rfront, roptions, metadata, transcript_data>>

\* process_url lines 270-311.
WriteOutput(write) ==
    /\ rpc = "output"
    /\ response' = CliRespond(roptions, metadata, transcript_data, write)
    /\ rpc' = "done"
    /\ UNCHANGED <<rfront, roptions, metadata, transcript_data>>

\* The request is over.
RequestOver ==
    /\ rpc = "done"
    /\ rpc' = "idle" /\ roptions' = NoOptions
    /\ metadata' = NoMetadata /\ transcript_data' = NoTranscript /\ response' = NoResponse
    /\ UNCHANGED rfront

RestIdle == UNCHANGED <<reqVars, fmtVars, chapVars, batchVars, winVars, conv>>

NextRetrieve ==
    \/ \E opt \in CliOptions : StartRequest(opt) /\ RestIdle
    \/ \E m \in MetadataEnvs : FetchMetadata(m) /\ RestIdle
    \/ \E env \in TranscriptEnvs : RetrieveTranscript(env) /\ RestIdle
    \/ \E i \in ChapterInfos : DeriveChapters(i) /\ RestIdle
    \/ \E write \in {"ok", "raise"} : WriteOutput(write) /\ RestIdle
    \/ RequestOver /\ RestIdle

SpecRetrieve == InitRetrieve /\ [][NextRetrieve]_vars

-----------------------------------------------------------------------------
(* Claims about failures of the providers (SpecRetrieve) *)

\* The step-by-step get_chapters of SpecChapters returns what the function
\* GetChaptersResult gives.
GetChaptersAgrees == cpc = "done" => chapters = GetChaptersResult(info).list

\* The web request got its transcript and went on to the chapters.
WebPastTranscript ==
    /\ rfront = "web" /\ rpc = "done"
    /\ transcript_data.calls # <<>> /\ ~transcript_data.failed

-----------------------------------------------------------------------------
(* Claims about the track selection (SpecRetrieve) *)

\* The track list was obtained and the selection ran.
Selected == transcript_data.calls # <<>> /\ transcript_data.env.list = "ok"

HasEnglish(tl) == HasLang(tl.manual, "en") \/ HasLang(tl.generated, "en")

\* The log is the chain up to its first success: the selectors in the fixed
\* order, every one before the last having failed, the last one having
\* given the track (or the chain being exhausted without a track).
StopsAtFirstSuccess(log, track, tl) ==
    /\ log # <<>>
    /\ log = SubSeq(selector_chain, 1, Len(log))
    /\ \A k \in 1..(Len(log) - 1) : ~RunSelector(selector_chain[k], tl).some
    /\ track = RunSelector(selector_chain[Len(log)], tl)
    /\ ~track.some => Len(log) = Len(selector_chain)

\* C17: the selectors are evaluated in the order explicit English, manually
\* created English, generated English, first available track, stopping at the
\* first that succeeds; a non-English track is chosen only when there is no
\* English track of any kind, and choosing it does not fail the retrieval.
C17_SelectorOrder ==
    Selected =>
        /\ StopsAtFirstSuccess(transcript_data.log, transcript_data.track,
                               transcript_data.env.tracks)
        /\ HasEnglish(transcript_data.env.tracks) =>
               /\ transcript_data.track.some
               /\ transcript_data.track.val.language_code = "en"
               /\ transcript_data.track.val.is_generated
                      = ~HasLang(transcript_data.env.tracks.manual, "en")
        /\ (transcript_data.track.some /\ transcript_data.env.fetch # "raise")
               => ~transcript_data.failed

\* Only a German track exists: all four selectors were evaluated, the German
\* track was chosen and the request succeeded.
C17_Witness ==
    /\ Selected /\ rpc = "done" /\ response.kind = "ok"
    /\ ~HasEnglish(transcript_data.env.tracks)
    /\ transcript_data.log = selector_chain
    /\ transcript_data.track = Some(Track("de", FALSE))

\* A generated English track was preferred to a manually created German one
\* listed before it, by the first selector.
EnglishPreferred ==
    /\ Selected
    /\ transcript_data.env.tracks = [manual |-> <<"de">>, generated |-> <<"en">>]
    /\ transcript_data.log = <<"find_transcript">>
    /\ transcript_data.track = Some(Track("en", TRUE))

-----------------------------------------------------------------------------
(* Claims about failures of the transcript retrieval and of the metadata
   fetch (SpecRetrieve) *)

\* The retrieval failed: listing raised, no track in any language, or the
\* fetch raised.
RetrievalFailed == rpc = "done" /\ transcript_data.calls # <<>> /\ transcript_data.failed

NoArtifact ==
    /\ response.transcript = "" /\ response.chapters = <<>> /\ ~response.header
    /\ ~response.printed /\ ~response.written

\* C18: a failed transcript retrieval ends the request in one failure
\* outcome, the web handler's error response or process_url's False, and
\* nothing of a success is returned, printed or written.
C18_RetrievalFailureFailsRequest ==
    RetrievalFailed =>
        /\ response.kind = "error"
        /\ response.status = IF rfront = "web" THEN 500 ELSE 1
        /\ NoArtifact

\* process_url returned False for a video without any track, with a file
\* as the output.
C18_Witness ==
    /\ RetrievalFailed /\ rfront = "cli" /\ roptions.output = "file"
    /\ transcript_data.env.list = "ok" /\ transcript_data.env.tracks = NoTracks
    /\ response.kind = "error" /\ ~response.written

\* The web handler answered 500 when the fetch of the chosen track raised.
WebFetchFailure ==
    /\ RetrievalFailed /\ rfront = "web"
    /\ transcript_data.track.some /\ transcript_data.env.fetch = "raise"
    /\ response.status = 500

\* The metadata fetch of the request raised or got None from the provider.
MetadataFetchFailed == rpc = "done" /\ MetadataFailed(metadata.env)

\* What remains of the request went well: the transcript was retrieved (and,
\* for the CLI, is not empty and could be written).
RestSucceeded ==
    /\ ~transcript_data.failed
    /\ rfront = "cli" => (transcript_data.text # "" /\ response.kind # "raised")

CliPlaceholderTitle ==
    /\ MetadataFetchFailed /\ rfront = "cli" /\ metadata.env = "null"
    /\ response.kind = "ok" /\ response.header /\ response.printed
    /\ response.title = "Unknown Title"

-----------------------------------------------------------------------------
(* YouTubeTranscriber.process_batch (SpecBatch) *)

WatchUrl == <<"h", "t", "t", "p", "s", ":", "/", "/", "y", "o", "u", "t", "u", ".", "b", "e", "/",
              "d", "Q", "w", "4", "-", "9", "W", "g", "_", "c", "Q">>
BareId == <<"d", "Q", "w", "4", "-", "9", "W", "g", "_", "c", "Q">>
NotAUrl == <<"n", "o", "t", " ", "a", " ", "u", "r", "l">>

BatchUrls == {WatchUrl, BareId, NotAUrl}

MaxUrls == 3

UrlLists == SeqsUpTo(BatchUrls, MaxUrls)

\* What the providers and the file system do during one process_url call.
TextEnv == [list |-> "ok", tracks |-> [manual |-> <<"en">>, generated |-> <<>>], fetch |-> "text"]
NoTrackEnv == [list |-> "ok", tracks |-> NoTracks, fetch |-> "text"]
ListRaisesEnv == [list |-> "raise", tracks |-> NoTracks, fetch |-> "text"]

BatchEnvs ==
    [meta : {"ok", "raise"}, transcript : {TextEnv, NoTrackEnv, ListRaisesEnv},
     write : {"ok", "raise"}]

\* process_url lines 253-256: no identifier.
NoVideoId == Respond("error", 1, "Could not extract video ID from URL")

\* process_url, once the identifier is there.
ProcessVideo(opt, env) ==
    CliRespond(opt,
               IF opt.include_metadata THEN CliVideoMetadata(env.meta) ELSE SkippedMetadata,
               ExtractTranscript(env.transcript), env.write)

\* process_url
ProcessUrl(u, opt, env) ==
    IF ~ExtractVideoId(u).some THEN NoVideoId ELSE ProcessVideo(opt, env)

\* results[url] = success
DictSet(d, k, v) ==
    IF \E i \in 1..Len(d) : d[i].url = k
    THEN [i \in 1..Len(d) |-> IF d[i].url = k THEN [url |-> k, success |-> v] ELSE d[i]]
    ELSE Append(d, [url |-> k, success |-> v])

InitBatch ==
    /\ ReqIdle /\ FmtOff /\ ChapIdle /\ RetIdle /\ WinIdle /\ ConvIdle
    /\ bpc = "idle" /\ urls = <<>> /\ output_dir = FALSE /\ bidx = 0
    /\ processed = <<>> /\ results = <<>>
    /\ outcomes = <<>> /\ files = <<>> /\ exit_code = None

\* A file name: directory, stem and, for the automatic names, the second the
\* name was made in.
FileName(dir, stem, stamp) == [dir |-> dir, stem |-> stem, stamp |-> stamp]

\* output_file = 'auto'
Auto == FileName(".", "auto", 0)

\* process_batch line 326: os.path.join(output_dir, 'auto')
JoinedAuto == FileName("out", "auto", 0)

\* Lines 298-299: the title with everything but word characters, blanks and
\* hyphens removed and each run of blanks and hyphens turned into one
\* hyphen; 'transcript' when metadata has no title.
SafeTitle(md) ==
    CASE md.empty -> "transcript"
      [] md.title = "Video title" -> "Video-title"
      [] md.title = "Unknown Title" -> "Unknown-Title"
      [] OTHER -> md.title

\* Lines 295-303: the file process_url opens; the automatic name is made only
\* when output_file is exactly 'auto'.
OutputFile(output_file, md, now) ==
    IF output_file = Auto THEN FileName(".", SafeTitle(md), now) ELSE output_file

\* open(output_file, 'w') and write: the file is created or replaced.
FileWrite(fs, name, u) ==
    IF \E i \in 1..Len(fs) : fs[i].name = name
    THEN [i \in 1..Len(fs) |-> IF fs[i].name = name THEN [name |-> name, url |-> u] ELSE fs[i]]
    ELSE Append(fs, [name |-> name, url |-> u])

\* The seconds of the clock a run may see.
Clock == 1..2

\* Lines 316-319: the call (include_metadata at its default, True).
ProcessBatch(us, od) ==
    /\ bpc = "idle"
    /\ urls' = us /\ output_dir' = od
    /\ bidx' = 0 /\ processed' = <<>> /\ results' = <<>>
    /\ outcomes' = <<>> /\ files' = <<>> /\ exit_code' = None
    /\ bpc' = "loop"

BatchOptions == [include_metadata |-> TRUE,
                 output |-> IF output_dir THEN "file" ELSE "stdout"]

\* Lines 321-331: one iteration; an exception of process_url is caught
\* nowhere and leaves process_batch.
BatchIteration(env, now) ==
    /\ bpc = "loop" /\ bidx < Len(urls)
    /\ processed' = Append(processed, urls[bidx + 1])
    /\ outcomes' = Append(outcomes, ProcessUrl(urls[bidx + 1], BatchOptions, env).kind)
    /\ files' = IF ProcessUrl(urls[bidx + 1], BatchOptions, env).written
                THEN FileWrite(files, OutputFile(JoinedAuto, CliVideoMetadata(env.meta), now),
                               urls[bidx + 1])
                ELSE files
    /\ IF ProcessUrl(urls[bidx + 1], BatchOptions, env).kind = "raised"
       THEN bpc' = "raised" /\ UNCHANGED <<bidx, results>>
       ELSE /\ results' = DictSet(results, urls[bidx + 1],
                                  ProcessUrl(urls[bidx + 1], BatchOptions, env).kind = "ok")
            /\ bidx' = bidx + 1
            /\ bpc' = bpc
    /\ UNCHANGED <<urls, output_dir, exit_code>>

\* Line 333: return results.
BatchReturn ==
    /\ bpc = "loop" /\ bidx = Len(urls)
    /\ bpc' = "returned"
    /\ UNCHANGED <<urls, output_dir, bidx, processed, results, outcomes, files, exit_code>>

\* failed of main's line 392: the entries of results that are not True.
Failed(d) == Cardinality({i \in 1..Len(d) : ~d[i].success})

\* main lines 391-405 after process_batch returned (the batch file had
\* URLs); an exception that left process_batch ends the process with the
\* interpreter's status 1.
MainBatchExit ==
    /\ bpc \in {"returned", "raised"} /\ urls # <<>>
    /\ exit_code' = IF bpc = "raised" THEN Some(1)
                    ELSE IF Failed(results) = 0 THEN Some(0) ELSE Some(1)
    /\ bpc' = "exited"
    /\ UNCHANGED <<urls, output_dir, bidx, processed, results, outcomes, files>>

\* main lines 371-380: the batch file is missing or holds no URL.
MainNoUrls ==
    /\ bpc = "idle"
    /\ bpc' = "exited" /\ exit_code' = Some(1)
    /\ urls' = <<>> /\ output_dir' = FALSE /\ bidx' = 0 /\ processed' = <<>>
    /\ results' = <<>> /\ outcomes' = <<>> /\ files' = <<>>

OutputFiles == {Auto, FileName(".", "t.txt", 0)}

SingleOptions(given) == [include_metadata |-> TRUE,
                         output |-> IF given THEN "file" ELSE "stdout"]

\* main lines 408-415: single-URL mode, with or without -o.
MainSingle(u, given, output_file, env, now) ==
    /\ bpc = "idle"
    /\ urls' = <<u>> /\ output_dir' = FALSE /\ bidx' = 1
    /\ processed' = <<u>> /\ results' = <<>>
    /\ outcomes' = <<ProcessUrl(u, SingleOptions(given), env).kind>>
    /\ files' = IF ProcessUrl(u, SingleOptions(given), env).written
                THEN FileWrite(<<>>, OutputFile(output_file, CliVideoMetadata(env.meta), now), u)
                ELSE <<>>
    /\ exit_code' = IF ProcessUrl(u, SingleOptions(given), env).kind = "ok"
                    THEN Some(0) ELSE Some(1)
    /\ bpc' = "exited"

\* The caller has the map or the exception, or the process is gone.
BatchOver ==
    /\ bpc \in {"returned", "raised", "exited"}
    /\ bpc' = "idle" /\ urls' = <<>> /\ output_dir' = FALSE /\ bidx' = 0
    /\ processed' = <<>> /\ results' = <<>>
    /\ outcomes' = <<>> /\ files' = <<>> /\ exit_code' = None

BatchAlone == UNCHANGED <<reqVars, fmtVars, chapVars, retVars, winVars, conv>>

NextBatch ==
    \/ \E us \in UrlLists, od \in BOOLEAN : ProcessBatch(us, od) /\ BatchAlone
    \/ \E env \in BatchEnvs, now \in Clock : BatchIteration(env, now) /\ BatchAlone
    \/ BatchReturn /\ BatchAlone
    \/ MainBatchExit /\ BatchAlone
    \/ MainNoUrls /\ BatchAlone
    \/ \E u \in BatchUrls, given \in BOOLEAN, output_file \in OutputFiles,
          env \in BatchEnvs, now \in Clock :
            MainSingle(u, given, output_file, env, now) /\ BatchAlone
    \/ BatchOver /\ BatchAlone

SpecBatch == InitBatch /\ [][NextBatch]_vars

-----------------------------------------------------------------------------
(* Claims about process_batch (SpecBatch) *)

BatchEnded == bpc \in {"returned", "raised"}

EveryUrlRecorded == \A k \in 1..Len(urls) : \E i \in 1..Len(results) : results[i].url = urls[k]

\* C20: process_batch calls process_url for every URL of its list, in input
\* order, whatever failed for the URLs before, and returns a map with an
\* outcome for every input URL.
C20_BatchProcessesEveryUrl ==
    BatchEnded => (bpc = "returned" /\ processed = urls /\ EveryUrlRecorded)

\* When process_batch returns, it has processed every URL in order and the
\* map has an outcome for each: invalid URLs and missing transcripts do not
\* stop the loop.
ReturnedBatchIsComplete ==
    bpc = "returned" => (processed = urls /\ EveryUrlRecorded)

\* A batch went past an invalid URL and a video without transcript.
BatchWentPastFailures ==
    /\ bpc = "returned" /\ Len(urls) = 3
    /\ \E i \in 1..Len(results) : ~results[i].success
    /\ \E i \in 1..Len(results) : results[i].success

-----------------------------------------------------------------------------
(* Claims about the CLI process (SpecBatch) *)

Exited == bpc = "exited"

EveryCallSucceeded == \A k \in 1..Len(outcomes) : outcomes[k] = "ok"

\* C21: the CLI process exits with code 0 exactly when every URL it
\* processed succeeded, and with code 1 when at least one processing failed.
C21_ExitCodeTellsSuccess ==
    Exited => /\ exit_code \in {Some(0), Some(1)}
              /\ exit_code = Some(0) <=> EveryCallSucceeded

\* The exit code follows the outcomes whenever the process handled at least
\* one URL and no URL came twice.
ExitCodeWithoutDuplicates ==
    (Exited /\ outcomes # <<>> /\ \A i, j \in 1..Len(urls) : urls[i] = urls[j] => i = j)
        => (exit_code = Some(0) <=> EveryCallSucceeded)

\* A batch with one failure among distinct URLs exited with 1.
BatchExitedWithOne ==
    /\ Exited /\ Len(urls) = 2 /\ urls[1] # urls[2]
    /\ outcomes = <<"ok", "error">> /\ exit_code = Some(1)

\* A URL that came twice, failed the first time and succeeded the second,
\* and the process exited with 0.
DuplicateHidesFailure ==
    /\ Exited /\ Len(urls) = 2 /\ urls[1] = urls[2]
    /\ outcomes = <<"error", "ok">> /\ exit_code = Some(0)

Successes == {k \in 1..Len(outcomes) : outcomes[k] = "ok"}

\* C28: in a batch run with an output directory every successfully
\* processed URL has a file of its own: after k successes the directory
\* holds k files, and no file of an earlier URL was replaced by a later one.
C28_OneFilePerSuccess ==
    output_dir => /\ Len(files) = Cardinality(Successes)
                  /\ \A k \in Successes : \E i \in 1..Len(files) : files[i].url = urls[k]

\* What the directory holds: at most the one file named 'auto', with the
\* transcript of the last success.
BatchWritesOneFile ==
    output_dir => /\ Len(files) <= 1
                  /\ \A i \in 1..Len(files) : files[i].name = JoinedAuto
                  /\ (Successes # {}) => (Len(files) = 1 /\ files[1].url = urls[CHOOSE k \in Successes : \A j \in Successes : j <= k])

\* Two different URLs both succeeded and the directory holds one file.
SecondReplacedFirst ==
    /\ output_dir /\ Len(urls) >= 2 /\ urls[1] # urls[2]
    /\ {1, 2} \subseteq Successes /\ Len(files) = 1

\* Single-URL mode with -o auto names the file after the title and the time.
SingleAutoNamed ==
    /\ Exited /\ Len(files) = 1 /\ files[1].name.stem = "Video-title" /\ files[1].name.stamp \in Clock

-----------------------------------------------------------------------------
(* The GUI window: the main thread's handlers, the worker threads and the
   callbacks handed over with root.after (SpecGui) *)

MaxRequests == 2

GuiUrls == {"valid", "invalid"}

Thread(kind, req, u, at, md) ==
    [kind |-> kind, req |-> req, url |-> u, at |-> at, md |-> md]

Scheduled(fn, req, md) == [fn |-> fn, req |-> req, md |-> md]

Touch(thread, op) == [thread |-> thread, op |-> op]

InitGui ==
    /\ ReqIdle /\ FmtOff /\ ChapIdle /\ RetIdle /\ BatchIdle /\ ConvIdle
    /\ window = Window /\ current = NoCurrent /\ threads = {} /\ mainloop = <<>>
    /\ submitted = 0 /\ trace = {} /\ saved = NothingSaved

\* The user edits the URL entry, which takes the keyboard focus; a disabled
\* entry accepts neither the click nor the keys.
TypeUrl(u) ==
    /\ window.url_entry = "normal"
    /\ window.url_var # u \/ window.focus # "entry"
    /\ window' = [window EXCEPT !.url_var = u, !.focus = "entry"]
    /\ UNCHANGED <<current, threads, mainloop, submitted, trace, saved>>

\* process_video with the focus at f afterwards: an empty entry is refused
\* with a warning; otherwise the controls are disabled, the transcript area
\* and the info frame cleared and a worker thread started.
process_video(f) ==
    IF window.url_var = ""
    THEN /\ window' = [window EXCEPT !.focus = f]
         /\ UNCHANGED <<threads, submitted>>
    ELSE /\ submitted < MaxRequests
         /\ window' = [window EXCEPT !.process_btn = "disabled",
                                     !.url_entry = "disabled",
                                     !.status = "Processing", !.text = <<>>,
                                     !.info_shown = FALSE, !.focus = f]
         /\ submitted' = submitted + 1
         /\ threads' = threads \cup
                {Thread("single", submitted + 1, window.url_var, "extract", NoMd)}

\* Line 74: the 'Get Transcript' button, which a click reaches only while it
\* is enabled.
ClickProcess ==
    /\ window.process_btn = "normal"
    /\ process_video("button")
    /\ UNCHANGED <<current, mainloop, trace, saved>>

\* Line 70: the <Return> binding of the entry itself.  It runs whenever the
\* entry has the focus: the disabled state stops the class bindings, which
\* edit the text, not a binding of the widget, and disabling a widget does
\* not take the focus from it.
ReturnKey ==
    /\ window.focus = "entry"
    /\ process_video("entry")
    /\ UNCHANGED <<current, mainloop, trace, saved>>

\* _process_video_thread lines 186-193.
WorkerExtract(t) ==
    /\ t \in threads /\ t.kind = "single" /\ t.at = "extract"
    /\ IF t.url = "invalid"
       THEN /\ mainloop' = Append(mainloop, Scheduled("_show_error", t.req, NoMd))
            /\ threads' = threads \ {t}
       ELSE /\ mainloop' = Append(mainloop, Scheduled("set_status", t.req, NoMd))
            /\ threads' = (threads \ {t}) \cup {[t EXCEPT !.at = "metadata"]}
    /\ trace' = trace \cup {Touch("worker", "root.after")}
    /\ UNCHANGED <<window, current, submitted, saved>>

\* Lines 196-201: the worker reads the Tk variable include_metadata and, if
\* it is set, fetches the metadata and schedules
\* _update_video_info.  An exception anywhere in the try goes to line 213.
WorkerMetadata(t, raises) ==
    /\ t \in threads /\ t.kind = "single" /\ t.at = "metadata"
    /\ IF raises
       THEN /\ mainloop' = Append(mainloop, Scheduled("_show_error", t.req, NoMd))
            /\ threads' = threads \ {t}
            /\ trace' = trace \cup {Touch("worker", "include_metadata.get"),
                                    Touch("worker", "root.after")}
       ELSE IF window.include_metadata
       THEN /\ mainloop' = Append(mainloop,
                    Scheduled("_update_video_info", t.req, Md(t.req)))
            /\ threads' = (threads \ {t}) \cup
                    {[t EXCEPT !.at = "transcript", !.md = Md(t.req)]}
            /\ trace' = trace \cup {Touch("worker", "include_metadata.get"),
                                    Touch("worker", "provider"),
                                    Touch("worker", "root.after")}
       ELSE /\ threads' = (threads \ {t}) \cup {[t EXCEPT !.at = "transcript"]}
            /\ trace' = trace \cup {Touch("worker", "include_metadata.get")}
            /\ UNCHANGED mainloop
    /\ UNCHANGED <<window, current, submitted, saved>>

\* Lines 204-210: the transcript, and _show_transcript or _show_error.
WorkerTranscript(t, got) ==
    /\ t \in threads /\ t.kind = "single" /\ t.at = "transcript"
    /\ mainloop' = Append(mainloop,
            IF got THEN Scheduled("_show_transcript", t.req, t.md)
            ELSE Scheduled("_show_error", t.req, NoMd))
    /\ threads' = threads \ {t}
    /\ trace' = trace \cup {Touch("worker", "provider"), Touch("worker", "root.after")}
    /\ UNCHANGED <<window, current, submitted, saved>>

\* The callbacks, run by the main thread.
RunAfterCallback(w, cb) ==
    CASE cb.fn = "set_status" -> [w EXCEPT !.status = "Extracting"]
      [] cb.fn = "_update_video_info" -> [w EXCEPT !.info = cb.md, !.info_shown = TRUE]
      [] cb.fn = "_show_transcript" ->
            [w EXCEPT !.text = <<cb.req>> \o w.text, !.status = "Success",
                      !.save_btn = "normal", !.copy_btn = "normal",
                      !.process_btn = "normal", !.url_entry = "normal"]
      [] cb.fn = "_show_error" ->
            [w EXCEPT !.status = "Error", !.process_btn = "normal",
                      !.url_entry = "normal"]
      [] cb.fn = "batch_complete" -> w
      [] cb.fn = "batch_ready" -> [w EXCEPT !.status = "Ready"]

\* The Tk event loop runs the oldest scheduled callback.
RunAfter ==
    /\ mainloop # <<>>
    /\ window' = RunAfterCallback(window, Head(mainloop))
    /\ current' = IF Head(mainloop).fn = "_show_transcript"
                  THEN [has |-> TRUE, transcript |-> Head(mainloop).req,
                        metadata |-> Head(mainloop).md]
                  ELSE current
    /\ mainloop' = Tail(mainloop)
    /\ trace' = trace \cup {Touch("main", "widget")}
    /\ UNCHANGED <<threads, submitted, saved>>

\* save_transcript with a file chosen in the dialog: the header, if asked
\* for and current_metadata is not empty, is made of current_metadata's
\* title and uploader and of duration_var; then current_transcript.
SaveTranscript ==
    /\ window.save_btn = "normal"
    /\ current.has
    /\ saved' = [saved EXCEPT !.file =
            Some([transcript |-> current.transcript,
                  header |-> window.include_metadata /\ current.metadata # NoMd,
                  title |-> current.metadata.req,
                  duration |-> window.info.req])]
    /\ UNCHANGED <<window, current, threads, mainloop, submitted, trace>>

\* copy_transcript
CopyTranscript ==
    /\ window.copy_btn = "normal"
    /\ current.has
    /\ saved' = [saved EXCEPT !.clipboard = current.transcript]
    /\ window' = [window EXCEPT !.status = "Copied"]
    /\ UNCHANGED <<current, threads, mainloop, submitted, trace>>

\* clear_all
ClearAll ==
    /\ window' = [window EXCEPT !.url_var = "", !.text = <<>>, !.info_shown = FALSE,
                                !.status = "Ready", !.save_btn = "disabled",
                                !.copy_btn = "disabled"]
    /\ window' # window
    /\ UNCHANGED <<current, threads, mainloop, submitted, trace, saved>>

\* The 'Include video metadata' checkbutton.
ToggleMetadata ==
    /\ window' = [window EXCEPT !.include_metadata = ~window.include_metadata]
    /\ UNCHANGED <<current, threads, mainloop, submitted, trace, saved>>

BatchRunning ==
    \/ \E t \in threads : t.kind = "batch"
    \/ \E i \in 1..Len(mainloop) : mainloop[i].fn \in {"batch_complete", "batch_ready"}

\* The batch dialog's 'Process Batch' with at least one URL: the status is
\* set and the batch thread started.
BatchStart ==
    /\ ~BatchRunning
    /\ window' = [window EXCEPT !.status = "Processing batch"]
    /\ threads' = threads \cup {Thread("batch", 0, "", "batch", NoMd)}
    /\ UNCHANGED <<current, mainloop, submitted, trace, saved>>

\* _batch_process_thread: process_batch with include_metadata read from the
\* Tk variable, then the two callbacks.
BatchWorker(t) ==
    /\ t \in threads /\ t.kind = "batch"
    /\ threads' = threads \ {t}
    /\ mainloop' = mainloop \o <<Scheduled("batch_complete", 0, NoMd), Scheduled("batch_ready", 0, NoMd)>>
    /\ trace' = trace \cup {Touch("worker", "include_metadata.get"),
                            Touch("worker", "provider"), Touch("worker", "root.after")}
    /\ UNCHANGED <<window, current, submitted, saved>>

GuiAlone == UNCHANGED <<reqVars, fmtVars, chapVars, retVars, batchVars, conv>>

\* A step of the worker thread of request n.
WorkerStep(n) ==
    \E t \in threads :
        /\ t.req = n /\ t.kind = "single"
        /\ \/ WorkerExtract(t)
           \/ \E raises \in BOOLEAN : WorkerMetadata(t, raises)
           \/ \E got \in BOOLEAN : WorkerTranscript(t, got)

NextGui ==
    \/ \E u \in GuiUrls : TypeUrl(u) /\ GuiAlone
    \/ ClickProcess /\ GuiAlone
    \/ ReturnKey /\ GuiAlone
    \/ \E t \in threads : WorkerExtract(t) /\ GuiAlone
    \/ \E t \in threads, raises \in BOOLEAN :
            WorkerMetadata(t, raises) /\ GuiAlone
    \/ \E t \in threads, got \in BOOLEAN : WorkerTranscript(t, got) /\ GuiAlone
    \/ RunAfter /\ GuiAlone
    \/ SaveTranscript /\ GuiAlone
    \/ CopyTranscript /\ GuiAlone
    \/ ClearAll /\ GuiAlone
    \/ ToggleMetadata /\ GuiAlone
    \/ BatchStart /\ GuiAlone
    \/ \E t \in threads : BatchWorker(t) /\ GuiAlone

SpecGui == InitGui /\ [][NextGui]_vars

\* Provider calls return, so every thread that can take its next step takes
\* it, and the event loop runs what is scheduled.
SpecGuiLive ==
    /\ InitGui /\ [][NextGui]_vars
    /\ \A n \in 1..MaxRequests : WF_vars(WorkerStep(n) /\ GuiAlone)
    /\ WF_vars((\E t \in threads : BatchWorker(t)) /\ GuiAlone)
    /\ WF_vars(RunAfter /\ GuiAlone)

-----------------------------------------------------------------------------
(* Claims about the GUI (SpecGui, SpecGuiLive) *)

ProvidersOffMainThread == \A e \in trace : e.op = "provider" => e.thread = "worker"

WidgetsOnMainThread == \A e \in trace : e.op = "widget" => e.thread = "main"

\* C22: blocking provider calls run only on worker threads, and the worker
\* threads neither read nor write Tk widgets or Tk variables: all they do
\* besides the provider calls is to schedule callbacks with root.after.
C22_ThreadConfinement ==
    /\ ProvidersOffMainThread
    /\ \A e \in trace : e.thread = "worker" => e.op \in {"provider", "root.after"}

\* A worker thread has read the Tk variable include_metadata.
WorkerReadTkVariable == Touch("worker", "include_metadata.get") \in trace

SingleWorkers == {t \in threads : t.kind = "single"}

ControlsDisabled == window.process_btn = "disabled" /\ window.url_entry = "disabled"

ControlsEnabled == window.process_btn = "normal" /\ window.url_entry = "normal"

\* Once disabled the controls are enabled again, whatever the worker met.
ReenabledEventually == ControlsDisabled ~> ControlsEnabled

\* C29: after process_video disabled the button and the entry and started a
\* worker they are eventually enabled again on every outcome of the worker,
\* and while they are disabled at most one single-video worker is running.
C29_ControlsComeBack ==
    /\ [](ControlsDisabled => Cardinality(SingleWorkers) <= 1)
    /\ ReenabledEventually

\* Two single-video workers at once, the controls disabled.
TwoWorkers == ControlsDisabled /\ Cardinality(SingleWorkers) = 2

SaveOrCopyEnabled == window.save_btn = "normal" \/ window.copy_btn = "normal"

\* C30: whenever Save or Copy is enabled, current_transcript,
\* current_metadata and the displayed video information belong to the most
\* recently submitted request and the stored transcript is the text in the
\* transcript area, so Save writes the transcript of the video on show.
C30_SaveCopyConsistent ==
    SaveOrCopyEnabled =>
        /\ current.has
        /\ current.transcript = submitted
        /\ current.metadata.req \in {0, submitted}
        /\ window.info_shown => window.info.req = submitted
        /\ window.text = <<current.transcript>>

\* Save and Copy are enabled only once a transcript is stored.
EnabledMeansStored == SaveOrCopyEnabled => current.has

\* Save wrote the first video's transcript while the second was being
\* processed.
SavedEarlierVideo ==
    /\ saved.file.some /\ saved.file.val.transcript = 1 /\ submitted = 2
    /\ window.text = <<>>

\* The window shows two transcripts, the older one first.
TranscriptsMixed == Len(window.text) = 2

-----------------------------------------------------------------------------
(* The two timestamp conversions, applied to texts and to numbers of seconds
   and to each other's results (SpecTimestamp) *)

MaxGroups == 4

MaxSeconds == 3700

Groups == {<<"1">>, <<"0", "5">>, <<"5", "9">>, <<"6", "0">>, <<"0", "0">>,
           <<"a", "b">>, <<"+", "2">>, <<"1", "_", "0">>, <<" ", "3">>, <<>>}

RECURSIVE JoinColon(_)
JoinColon(gs) ==
    IF Len(gs) = 1 THEN gs[1] ELSE gs[1] \o <<":">> \o JoinColon(Tail(gs))

TimestampTexts ==
    {JoinColon(gs) : gs \in UNION {[1..n -> Groups] : n \in 1..MaxGroups}}

\* The seconds tried: everything up to a little over an hour, and the
\* neighbourhoods of ten and of a hundred hours.
SecondsTried ==
    (0..MaxSeconds) \cup {10 * SecondsPerHour - 1, 10 * SecondsPerHour,
                          100 * SecondsPerHour - 1, 100 * SecondsPerHour + 61}

InitTimestamp ==
    /\ ReqIdle /\ FmtOff /\ ChapIdle /\ RetIdle /\ BatchIdle /\ WinIdle
    /\ \/ \E t \in TimestampTexts : conv = [NoConversion EXCEPT !.pc = "text", !.text = t]
       \/ \E n \in SecondsTried :
            conv = [NoConversion EXCEPT !.pc = "seconds", !.seconds = Some(n)]

\* _parse_timestamp(text)
ParseText ==
    /\ conv.pc = "text"
    /\ conv' = [conv EXCEPT !.pc = "parsed", !.seconds = ParseTimestamp(conv.text)]

\* _format_timestamp of what _parse_timestamp returned
FormatBack ==
    /\ conv.pc = "parsed" /\ conv.seconds.some
    /\ conv' = [conv EXCEPT !.pc = "formatted back",
                            !.text_back = Some(FormatTimestamp(conv.seconds.val))]

\* _format_timestamp(seconds)
FormatSeconds ==
    /\ conv.pc = "seconds"
    /\ conv' = [conv EXCEPT !.pc = "formatted", !.text = FormatTimestamp(conv.seconds.val)]

\* _parse_timestamp of what _format_timestamp returned
ParseBack ==
    /\ conv.pc = "formatted"
    /\ conv' = [conv EXCEPT !.pc = "parsed back",
                            !.seconds_back = ParseTimestamp(conv.text)]

ConvAlone == UNCHANGED <<reqVars, fmtVars, chapVars, retVars, batchVars, winVars>>

NextTimestamp ==
    \/ ParseText /\ ConvAlone
    \/ FormatBack /\ ConvAlone
    \/ FormatSeconds /\ ConvAlone
    \/ ParseBack /\ ConvAlone

SpecTimestamp == InitTimestamp /\ [][NextTimestamp]_vars

-----------------------------------------------------------------------------
(* Claims about the timestamp conversions (SpecTimestamp) *)

GroupsOf(text) == Split(text, <<":">>)

Numeric(text) == \A k \in 1..Len(GroupsOf(text)) : AllDigits(GroupsOf(text)[k])

\* A group nobody reads as a number: empty, or with a letter in it.
NonNumeric(g) == g = <<>> \/ \E i \in 1..Len(g) : g[i] \in Lowers \cup Uppers

GroupVal(text, k) == NumVal(GroupsOf(text)[k])

Parsed == conv.pc = "parsed"

C24_SecondsRoundTrip ==
    conv.pc = "parsed back" => conv.seconds_back = conv.seconds

C24_Witness ==
    /\ conv.pc = "parsed back" /\ conv.seconds = Some(3600)
    /\ conv.text = <<"0", "1", ":", "0", "0", ":", "0", "0">>

\* C25: for every text of two or three numeric groups, formatting the
\* seconds _parse_timestamp made of it gives the text back.
C25_TextRoundTrip ==
    (conv.pc = "formatted back" /\ Len(GroupsOf(conv.text)) \in {2, 3} /\ Numeric(conv.text))
        => conv.text_back = Some(conv.text)

\* The texts _format_timestamp writes: groups of two digits, minutes and
\* seconds below 60, hours only from 1 on.
Canonical(text) ==
    /\ Len(GroupsOf(text)) \in {2, 3} /\ Numeric(text)
    /\ \A k \in 1..Len(GroupsOf(text)) : Len(GroupsOf(text)[k]) = 2
    /\ GroupVal(text, Len(GroupsOf(text))) < 60
    /\ GroupVal(text, Len(GroupsOf(text)) - 1) < 60
    /\ Len(GroupsOf(text)) = 3 => GroupVal(text, 1) >= 1

\* The round trip gives back every text that is in the form
\* _format_timestamp writes.
C25_CanonicalTextRoundTrip ==
    (conv.pc = "formatted back" /\ Canonical(conv.text)) => conv.text_back = Some(conv.text)

C25_Witness ==
    /\ conv.pc = "formatted back"
    /\ conv.text = <<"0", "5", ":", "5", "9", ":", "0", "0">>
    /\ conv.text_back = Some(conv.text)

\* "1:05" came back as "01:05".
UnpaddedComesBackPadded ==
    /\ conv.pc = "formatted back" /\ conv.text = <<"1", ":", "0", "5">>
    /\ conv.text_back = Some(<<"0", "1", ":", "0", "5">>)

\* int() reads "+2", " 3" and "1_0" as numbers.
LenientGroupsParsed ==
    /\ Parsed /\ conv.text = <<"+", "2", ":", " ", "3", ":", "1", "_", "0">>
    /\ conv.seconds = Some(2 * 3600 + 3 * 60 + 10)

\* "00:05:59", valid as HH:MM:SS, came back as "05:59".
ZeroHoursDropped ==
    /\ conv.pc = "formatted back"
    /\ conv.text = <<"0", "0", ":", "0", "5", ":", "5", "9">>
    /\ conv.text_back = Some(<<"0", "5", ":", "5", "9">>)

-----------------------------------------------------------------------------
(* Claims about the sentences and the grouping (SpecFormat) *)

HasSentences == fpc = "group" \/ (fpc = "done" /\ segments # <<>>)

\* Lines 116-118: the condition of the fallback.
FellBack ==
    /\ Len(SplitSentences(FullText(segments))) <= 3
    /\ Len(FullText(segments)) > 200

WordCount(k) == Len(Words(sentences[k]))

\* Sentence k could not have been closed before its last word: after none of
\* its words from the 15th on comes a word that begins with a capital.
ClosedAtFirstChance(k) ==
    \A j \in 15..(WordCount(k) - 1) : ~IsUpper(Words(sentences[k])[j + 1][1])

\* Sentence k was closed by one of the two rules.
ClosedByRule(k) ==
    \/ WordCount(k) = 20
    \/ WordCount(k) >= 15 /\ IsUpper(sentences[k + 1][1])

\* C26: with at most 3 punctuation sentences and more than 200 characters
\* the text is cut by word count, a sentence closed as soon as it has 15
\* words and a capitalised word follows, or as soon as it has 20 words: no
\* sentence has more than 20 words and all but the last have at least 15.
\* Otherwise the punctuation sentences are kept as they are.
C26_WordCountFallback ==
    HasSentences =>
        IF FellBack
        THEN /\ \A k \in 1..Len(sentences) : WordCount(k) <= 20 /\ ClosedAtFirstChance(k)
             /\ \A k \in 1..(Len(sentences) - 1) : WordCount(k) >= 15 /\ ClosedByRule(k)
             /\ Words(JoinSpace(sentences)) = Words(FullText(segments))
        ELSE sentences = SplitSentences(FullText(segments))

\* 44 unpunctuated words cut into sentences of 16, 20 and 8 words.
C26_Witness ==
    /\ HasSentences /\ FellBack /\ Len(sentences) = 3
    /\ WordCount(1) = 16 /\ WordCount(2) = 20 /\ WordCount(3) = 8

\* A short text, and a long one of more than three sentences, keep their
\* punctuation sentences.
PunctuationSplitKept ==
    /\ HasSentences /\ ~FellBack /\ Len(sentences) >= 4
    /\ Len(FullText(segments)) > 200

KeptSentences(n) ==
    SelectSeq([k \in 1..n |-> Strip(sentences[k])], NonEmpty)

\* The paragraphs made so far, the open one included.
GroupedSoFar ==
    IF fpc = "done" THEN paragraphs ELSE Closed(paragraphs, current_paragraph)

\* An output paragraph is the grouped one with its first character
\* capitalised and, at most, a period appended.
PolishedFrom(out, para) ==
    /\ out \in {Capitalize(para), Append(Capitalize(para), ".")}
    /\ Tail(SubSeq(out, 1, Len(para))) = Tail(para)

\* C27: grouping neither loses, duplicates nor reorders text: the sentences
\* of the paragraphs, in order, are the sentences of the cleaned text, on
\* every path, and the output paragraphs differ from them only in the
\* capitalised first character and the appended period.
C27_GroupingKeepsText ==
    /\ HasSentences =>
            JoinSpace(GroupedSoFar) = JoinSpace(KeptSentences(sidx - 1))
    /\ (fpc = "done" /\ segments # <<>>) =>
            /\ Words(JoinSpace(paragraphs)) = Words(FullText(segments))
            /\ Len(ParagraphsOf(fresult.val)) = Len(paragraphs)
            /\ \A k \in 1..Len(paragraphs) :
                    PolishedFrom(ParagraphsOf(fresult.val)[k], paragraphs[k])

\* A text whose marker sentence was moved to the next paragraph, returned.
C27_Witness ==
    /\ fpc = "done" /\ Len(paragraphs) >= 2
    /\ \E k \in 2..Len(paragraphs) : IsMarker(paragraphs[k])
    /\ Words(JoinSpace(paragraphs)) = Words(FullText(segments))

=============================================================================
